---- MODULE Spec2Model ----
(***************************************************************************)
(* Articulated model animation engine of the Fetch robot viewers.          *)
(*                                                                         *)
(* Modelled from client/src/components/FetchHeroViewer.tsx (the hero       *)
(* viewer: module-level preload cache, FetchRobot, ClipRunner) and from    *)
(* client/src/pages/FetchDemo.tsx (the demo page viewer: its own loader,   *)
(* status channel, clip buttons and frame callback).                       *)
(*                                                                         *)
(* Time is counted in units of 0.5 ms, so the 0.001 s floor of the span    *)
(* (Math.max(0.001, ...)) is Eps = 2 units and keyframes can lie closer    *)
(* together than the floor.  Joint angles and interpolation factors are    *)
(* exact rationals <<n, d>> in lowest terms; <<0, 0>> is NaN.              *)
(***************************************************************************)
EXTENDS Integers, Sequences, FiniteSets, TLC

(***************************************************************************)
(* Bounds of the model.                                                    *)
(***************************************************************************)
MaxNow == 4
MaxStep == 2
MaxEffectRuns == 2
MaxFrames == 3
MaxTime == 4

(***************************************************************************)
(* Program constants.                                                      *)
(***************************************************************************)
Eps == 2

Null == "null"

(***************************************************************************)
(* Exact rational arithmetic with the NaN behaviour of JavaScript numbers. *)
(***************************************************************************)
NaN == <<0, 0>>

IsNaN(r) == r[2] = 0

Abs(n) == IF n < 0 THEN -n ELSE n

RECURSIVE GCD(_, _)
GCD(m, n) == IF n = 0 THEN m ELSE GCD(n, m % n)

RNorm(n, d) ==
    IF d = 0 THEN NaN
    ELSE LET g == GCD(Abs(n), Abs(d))
             s == IF d < 0 THEN -1 ELSE 1
         IN  <<s * (n \div g), s * (d \div g)>>

R(n) == <<n, 1>>

RAdd(r, s) == IF IsNaN(r) \/ IsNaN(s) THEN NaN
              ELSE RNorm(r[1] * s[2] + s[1] * r[2], r[2] * s[2])

RSub(r, s) == IF IsNaN(r) \/ IsNaN(s) THEN NaN
              ELSE RNorm(r[1] * s[2] - s[1] * r[2], r[2] * s[2])

RMul(r, s) == IF IsNaN(r) \/ IsNaN(s) THEN NaN
              ELSE RNorm(r[1] * s[1], r[2] * s[2])

\* r / s for a divisor s that is a positive number.
RDiv(r, s) == IF IsNaN(r) \/ IsNaN(s) THEN NaN
              ELSE RNorm(r[1] * s[2], r[2] * s[1])

\* Comparisons with NaN are false.
RLeq(r, s) == ~IsNaN(r) /\ ~IsNaN(s) /\ r[1] * s[2] <= s[1] * r[2]

RLt(r, s) == ~IsNaN(r) /\ ~IsNaN(s) /\ r[1] * s[2] < s[1] * r[2]

\* Math.min and Math.max return NaN when an argument is NaN.
MathMin(r, s) == IF IsNaN(r) \/ IsNaN(s) THEN NaN
                 ELSE IF RLeq(r, s) THEN r ELSE s

MathMax(r, s) == IF IsNaN(r) \/ IsNaN(s) THEN NaN
                 ELSE IF RLeq(r, s) THEN s ELSE r

\* The % operator of JavaScript for a dividend >= 0: NaN for a zero divisor.
JsMod(e, d) == IF d = 0 THEN NaN ELSE R(e % d)

\* THREE.MathUtils.lerp(x, y, t) = (1 - t) * x + t * y
LerpSwapped(x, y, t) == RAdd(RMul(RSub(R(1), t), y), RMul(t, x))

Lerp(x, y, t) == RAdd(RMul(RSub(R(1), t), x), RMul(t, y))

(***************************************************************************)
(* Clips.  A keyframe is [time, joints] where joints is a function whose   *)
(* domain is the set of joint names the keyframe gives a value.            *)
(***************************************************************************)
\* The joints the clips name, the joints the head driver names
\* (head_pan_joint, head_tilt_joint), and all of them.
ClipJointNames == {"a", "b"}

HeadJointNames == {"head_pan_joint", "head_tilt_joint"}

JointNames == ClipJointNames \cup HeadJointNames

Duration(clip) == clip.frames[Len(clip.frames)].time

\* const t = clip.loop ? elapsed % duration : Math.min(elapsed, duration)
EffectiveTClamped(clip, elapsed) ==
    MathMin(R(elapsed), R(Duration(clip)))

EffectiveT(clip, elapsed) ==
    IF clip.loop THEN JsMod(elapsed, Duration(clip))
    ELSE MathMin(R(elapsed), R(Duration(clip)))

\* if (!clip.loop && elapsed >= duration)
FinishedLate(clip, elapsed) == ~clip.loop /\ elapsed > Duration(clip)

Finished(clip, elapsed) == ~clip.loop /\ elapsed >= Duration(clip)

\* The bracketing pair of frame indices: the first i with
\* frames[i].time <= t <= frames[i+1].time, else the first and last frame.
Bracket(clip, t) ==
    LET n == Len(clip.frames)
        hits == {i \in 1..(n - 1) :
                    /\ RLeq(R(clip.frames[i].time), t)
                    /\ RLeq(t, R(clip.frames[i + 1].time))}
    IN  IF hits = {} THEN <<1, n>>
        ELSE LET i == CHOOSE k \in hits : \A m \in hits : k <= m
             IN  <<i, i + 1>>

\* const span = Math.max(0.001, f2.time - f1.time)
Span(f1, f2) == MathMax(R(Eps), R(f2.time - f1.time))

\* const alpha = Math.min(1, Math.max(0, (t - f1.time) / span))
Alpha(f1, f2, t) ==
    MathMin(R(1), MathMax(R(0), RDiv(RSub(t, R(f1.time)), Span(f1, f2))))

\* f.joints[name] ?? 0
JointOr1(f, name) == IF name \in DOMAIN f.joints THEN R(f.joints[name]) ELSE R(1)

JointOr0(f, name) == IF name \in DOMAIN f.joints THEN R(f.joints[name]) ELSE R(0)

\* The joint values one frame callback writes for a clip that is not
\* finished: for every name of f1 or f2 that the registry holds,
\* lerp(v1, v2, alpha).
ClipWrites(clip, elapsed, registry) ==
    LET t  == EffectiveT(clip, elapsed)
        br == Bracket(clip, t)
        f1 == clip.frames[br[1]]
        f2 == clip.frames[br[2]]
        al == Alpha(f1, f2, t)
        names == (DOMAIN f1.joints \cup DOMAIN f2.joints) \cap registry
    IN  [name \in names |-> Lerp(JointOr0(f1, name), JointOr0(f2, name), al)]

(***************************************************************************)
(* The clips the viewers play, with times in model units and angles as     *)
(* small integers.  IntroPoseClip keeps the shape of introPoseClip (three  *)
(* keyframes, the last one omitting a joint the first two name); WaveClip  *)
(* is a two-keyframe non-looping clip; DanceClip loops; ResetClip is the   *)
(* single keyframe at time 0 holding the base pose.                        *)
(***************************************************************************)
BasePose == ("a" :> 1)

IntroPoseClip ==
    [name |-> "intro-pose", loop |-> FALSE,
     frames |-> << [time |-> 0, joints |-> ("a" :> 1) @@ ("b" :> 1)],
                   [time |-> 2, joints |-> ("a" :> 1) @@ ("b" :> 2)],
                   [time |-> 4, joints |-> ("a" :> 0)] >>]

WaveClip ==
    [name |-> "wave", loop |-> FALSE,
     frames |-> << [time |-> 0, joints |-> ("a" :> 0)],
                   [time |-> 2, joints |-> ("a" :> 1)] >>]

DanceClip ==
    [name |-> "dance", loop |-> TRUE,
     frames |-> << [time |-> 0, joints |-> ("a" :> 0)],
                   [time |-> 2, joints |-> ("a" :> 2) @@ ("b" :> 1)],
                   [time |-> 4, joints |-> ("a" :> 0)] >>]

ResetClip ==
    [name |-> "reset", loop |-> FALSE,
     frames |-> << [time |-> 0, joints |-> BasePose] >>]

DemoClipNames == {"wave", "dance", "reset"}

\* The clip a playback record names.
ClipOf(name) ==
    CASE name = "intro-pose" -> IntroPoseClip
      [] name = "wave" -> WaveClip
      [] name = "dance" -> DanceClip
      [] OTHER -> ResetClip

(***************************************************************************)
(* Viewers and assets.  Heroes are instances of FetchHeroViewer, which     *)
(* load through the module-level cache; Demos are instances of the demo    *)
(* page's FetchRobot, which own a loader each.  An asset is the pair       *)
(* (assetsBase, urdfUrl) a viewer is given; the model a load of asset x    *)
(* yields is identified with x.                                            *)
(***************************************************************************)
Heroes == {"h1", "h2"}

Demos == {"d1"}

Viewers == Heroes \cup Demos

\* The host shows at most two viewers in one run: two hero viewers, or a
\* hero viewer and the demo page.
Casts == {{"h1", "h2"}, {"h1", "d1"}}

Assets == {"A", "B"}

\* The demo page always passes the same asset: assets/fetch/fetch.urdf.
DemoAsset == "A"

\* robot.joints of the model of an asset
JointsOf(x) == IF x = "A" THEN JointNames ELSE {"a", "head_pan_joint"}

NoClip == [clip |-> Null, start |-> 0]

ZeroJoints == [j \in JointNames |-> R(0)]

(***************************************************************************)
(* Camera and pointer of the hero viewer.  A position is the x coordinate  *)
(* of the camera position, a target the y coordinate of the look-target.   *)
(* Head joint angles are in degrees.  The durations are scaled down to a   *)
(* few time steps, keeping reset < inactivity window < intro camera.       *)
(***************************************************************************)
\* const duration = 1200 (smoothReset)
ResetDuration == 2

\* window.setTimeout(resetView, 2000)
InactivityWindow == 3

\* const introCamDuration = 3500
IntroCamDuration == 4

\* <Canvas camera={{ position: [2.5, 1.5, 2.5] }}>
InitialCamPos == <<5, 2>>

\* introCamStart = (0.5, 1, 0), introCamEnd = (2, 1, 0)
IntroCamStart == <<1, 2>>

IntroCamEnd == R(2)

\* introCamTarget = (0, 1, 0); the target of fresh OrbitControls is the origin
IntroCamTarget == R(1)

InitialTarget == R(0)

\* Where a drag on the enabled OrbitControls leaves the camera and its target.
OrbitPos == R(3)

OrbitTarget == R(2)

\* defaultCamPosRef.current = null
NoPos == <<>>

\* A head target as handleMove leaves it: the pointer at a viewport corner.
CornerTarget == [x |-> R(1), y |-> R(-1), active |-> TRUE]

\* lerp(current, desired, 0.12)
SmoothingOver == <<28, 25>>
Smoothing == <<3, 25>>

NoIntro == [active |-> FALSE, start |-> 0]

NoReset == [active |-> FALSE, start |-> 0, startPos |-> R(0), endPos |-> R(0),
            startTarget |-> R(0), endTarget |-> R(0)]

HeadIdle == [x |-> R(0), y |-> R(0), active |-> FALSE]

\* No timer is pending.
NoTimer == -1

\* Positions of the demo camera, as offsets from the centre of the model.
Origin == <<R(0), R(0), R(0)>>

\* useState<{ center, radius } | null>(null)
NoBounds == [known |-> FALSE]

\* introHoldRef.current = null
NoHold == [held |-> FALSE]

NoIntroTimer == [armed |-> FALSE]

NoCameraAnim == [active |-> FALSE]

VARIABLES
    now,          \* the clock read by nowSec() and clock.getElapsedTime()
    fetchPreload, \* the module-level cache cell of FetchHeroViewer
    loads,        \* every loader.load call started so far
    mounted,      \* viewer -> is it mounted
    req,          \* viewer -> the asset it was given (Null before mount)
    effectRuns,   \* viewer -> runs of its load effect so far
    pendingThen,  \* hero -> .then callbacks registered and not yet run
    received,     \* viewer -> what its load callback last got ("none" before)
    instCount,    \* viewer -> model instances created so far
    robotRef,     \* viewer -> id of the current instance, 0 for null
    scene,        \* viewer -> ids of its instances in the scene graph
    jointMap,     \* viewer -> joint names of jointMapRef.current
    jointVal,     \* viewer -> joint name -> angle of the current instance
    clipRef,      \* viewer -> NoClip or [clip, start]
    status,       \* viewer -> [loading, error] as last reported to the host
    readyCalls,   \* viewer -> number of onReady calls
    threw,        \* viewer -> an exception escaped one of its callbacks
    cast,         \* the viewers the host page mounts in this run
    sClip,        \* interpolation check: the clip sampled
    sElapsed,     \* interpolation check: the elapsed time sampled
    sOut,         \* interpolation check: [finished, writes] of that sample
    sRegOut,      \* interpolation check: [finished, writes] for each registry
    sHead,        \* interpolation check: for each registry, the joint
                  \* angles after the head follow
    enableInteraction, \* the enableInteraction prop of the hero viewer
    introCamAnim, \* introCamAnimRef.current: [active, start]
    resetAnim,    \* the running smoothReset animation, NoReset for none
    timeout,      \* deadline of the inactivity timer, NoTimer for none
    listening,    \* the inactivity effect has attached its listeners
    camPos,       \* camera.position
    camTarget,    \* controlsRef.current.target
    defaultCamPos, \* defaultCamPosRef.current, NoPos for null
    headTarget,   \* headTargetRef.current: [x, y, active]
    lastInput,    \* time of the last input event on the container, -1 for none
    timers,       \* pending setTimeout calls nothing holds a handle of:
                  \* a sequence of [fn, due, start], start the number of
                  \* the call that armed it
    waveCompleteCalls, \* number of onWaveComplete calls
    startReady,   \* the host has been handed startWave (onStartReady)
    starts,       \* number of startWave calls
    bounds,       \* FetchDemo: the bounds state, [known, radius]
    introHold,    \* FetchDemo: introHoldRef.current, [held, startPos]
    introTimer,   \* FetchDemo: the timer of introTimerRef with the poses
                  \* its callback closed over, [armed, due, startPos, endPos]
    cameraAnim,   \* FetchDemo: cameraAnimRef.current
    demoCamPos,   \* FetchDemo: camera.position, relative to the centre of
                  \* the model
    demoTarget,   \* FetchDemo: controlsRef.current.target, by name
    waveTriggered, \* FetchDemo: waveTriggeredRef.current
    waveTimer,    \* FetchDemo: the timer of the auto-wave effect, [armed, due]
    autoWaves,    \* FetchDemo: runs of the auto-wave timer's callback
    resetLoops,   \* hero: animate callbacks of smoothReset waiting in the
                  \* browser's animation frame queue
    home          \* Home: its state, [firstVisit, compact, showLoader,
                  \* contentVisible], heroSeen of the session storage, and
                  \* firstAtMount, what firstVisit was in the first render

sysVars == <<now, fetchPreload, loads, mounted, req, effectRuns, pendingThen,
             received, instCount, robotRef, scene, jointMap, jointVal, clipRef,
             status, readyCalls, threw, cast>>

sampleVars == <<sClip, sElapsed, sOut, sRegOut, sHead>>

camVars == <<enableInteraction, introCamAnim, resetAnim, timeout, listening,
             camPos, camTarget, defaultCamPos, headTarget, lastInput>>

hostVars == <<timers, waveCompleteCalls, startReady, starts>>

\* What the operations of the viewers and their cameras leave alone.
demoVars == <<bounds, introHold, introTimer, cameraAnim, demoCamPos,
             demoTarget>>

\* What the page around the demo viewer keeps for the automatic wave.
pageVars == <<waveTriggered, waveTimer, autoWaves>>

\* What the viewers' operations other than the inactivity reset leave alone.
restVars == <<sampleVars, hostVars, demoVars, pageVars, home>>

idleVars == <<restVars, resetLoops>>

vars == <<sysVars, sampleVars, camVars, hostVars, demoVars, pageVars,
          resetLoops, home>>

\* What the operations on loading and playback leave alone.
fixedVars == <<cast, idleVars, camVars>>

\* The targets of the demo page's OrbitControls: the default one, the centre
\* of the model, and where a pan of the user leaves it.
DemoInitialTarget == "origin"

DemoCenter == "center"

DemoPannedTarget == "panned"

\* Where a drag on the demo page's OrbitControls leaves the camera.
DemoOrbitPos == <<R(1), R(1), R(1)>>

\* The state of Home after its first render, with heroSeen in the session
\* storage or not.
HomeAt(heroSeen) ==
    [firstVisit |-> ~heroSeen, compact |-> heroSeen, showLoader |-> ~heroSeen,
     contentVisible |-> heroSeen, heroSeen |-> heroSeen,
     firstAtMount |-> ~heroSeen]

\* No auto-wave timer is pending.
NoWaveTimer == [armed |-> FALSE]

NoPreload == [state |-> "unset", asset |-> Null, value |-> Null]

(***************************************************************************)
(* Initial state: nothing mounted, the cache cell empty.                   *)
(***************************************************************************)
SysInit ==
    /\ now = 0
    /\ fetchPreload = NoPreload
    /\ loads = <<>>
    /\ mounted = [v \in Viewers |-> FALSE]
    /\ req = [v \in Viewers |-> Null]
    /\ effectRuns = [v \in Viewers |-> 0]
    /\ pendingThen = [v \in Viewers |-> 0]
    /\ received = [v \in Viewers |-> "none"]
    /\ instCount = [v \in Viewers |-> 0]
    /\ robotRef = [v \in Viewers |-> 0]
    /\ scene = [v \in Viewers |-> {}]
    /\ jointMap = [v \in Viewers |-> {}]
    /\ jointVal = [v \in Viewers |-> ZeroJoints]
    /\ clipRef = [v \in Viewers |-> NoClip]
    /\ status = [v \in Viewers |-> [loading |-> TRUE, error |-> Null]]
    /\ readyCalls = [v \in Viewers |-> 0]
    /\ threw = [v \in Viewers |-> FALSE]
    /\ enableInteraction = TRUE
    /\ introCamAnim = NoIntro
    /\ resetAnim = NoReset
    /\ timeout = NoTimer
    /\ listening = FALSE
    /\ camPos = InitialCamPos
    /\ camTarget = InitialTarget
    /\ defaultCamPos = NoPos
    /\ headTarget = HeadIdle
    /\ lastInput = -1
    /\ timers = <<>>
    /\ waveCompleteCalls = 0
    /\ startReady = FALSE
    /\ starts = 0
    /\ bounds = NoBounds
    /\ introHold = NoHold
    /\ introTimer = NoIntroTimer
    /\ cameraAnim = NoCameraAnim
    /\ demoCamPos = Origin
    /\ demoTarget = DemoInitialTarget
    /\ waveTriggered = FALSE
    /\ waveTimer = NoWaveTimer
    /\ autoWaves = 0
    /\ resetLoops = 0
    /\ home = HomeAt(FALSE)

SampleIdle ==
    /\ sClip = ResetClip
    /\ sElapsed = 0
    /\ sOut = [finished |-> TRUE, writes |-> <<>>]
    /\ sRegOut = <<>>
    /\ sHead = <<>>

Init == SysInit /\ cast \in Casts /\ SampleIdle

(***************************************************************************)
(* ensureFetchPreload(assetsBase, urdfUrl)                                 *)
(***************************************************************************)
\* if (fetchPreload) return fetchPreload;
CacheHitSettledOnly(fp) == fp.state = "resolved"

\* A cache that forgot a failed load.
CacheHitModelOnly(fp) ==
    fp.state = "pending" \/ (fp.state = "resolved" /\ fp.value # Null)

CacheHit(fp) == fp.state # "unset"

\* The cache cell and the loads after a call for asset x.
EnsureFetchPreload(x) ==
    IF CacheHit(fetchPreload)
    THEN /\ fetchPreload' = fetchPreload
         /\ loads' = loads
    ELSE /\ fetchPreload' = [state |-> "pending", asset |-> x, value |-> Null]
         /\ loads' = Append(loads, [owner |-> "cache", asset |-> x,
                                     status |-> "pending",
                                     meshFailed |-> FALSE])

\* A resolved promise has callbacks to run: they run as microtasks, before
\* any other task (frame, input event, effect, loader completion).
MicrotaskPending ==
    /\ fetchPreload.state = "resolved"
    /\ \E v \in Heroes : pendingThen[v] > 0

(***************************************************************************)
(* Mount of a viewer with asset x: the load effect runs for the first time.*)
(***************************************************************************)
MountHeroCore(v, x) ==
    /\ v \in Heroes \cap cast
    /\ ~MicrotaskPending
    /\ ~mounted[v]
    /\ effectRuns[v] = 0
    /\ mounted' = [mounted EXCEPT ![v] = TRUE]
    /\ req' = [req EXCEPT ![v] = x]
    /\ effectRuns' = [effectRuns EXCEPT ![v] = 1]
    /\ EnsureFetchPreload(x)
    /\ pendingThen' = [pendingThen EXCEPT ![v] = @ + 1]
    /\ UNCHANGED <<now, received, instCount, robotRef, scene, jointMap,
                   jointVal, clipRef, status, readyCalls, threw>>

MountHero(v, x) == MountHeroCore(v, x) /\ UNCHANGED fixedVars

\* FetchDemo's FetchRobot: a loader of its own; loader.load starts the
\* manager, whose onStart reports (true, null); playClip is handed out.
MountDemo(v, x) ==
    /\ v \in Demos \cap cast
    /\ x = DemoAsset
    /\ ~MicrotaskPending
    /\ ~mounted[v]
    /\ effectRuns[v] = 0
    /\ mounted' = [mounted EXCEPT ![v] = TRUE]
    /\ req' = [req EXCEPT ![v] = x]
    /\ effectRuns' = [effectRuns EXCEPT ![v] = 1]
    /\ loads' = Append(loads, [owner |-> v, asset |-> x, status |-> "pending",
                                meshFailed |-> FALSE])
    /\ status' = [status EXCEPT ![v] = [loading |-> TRUE, error |-> Null]]
    /\ UNCHANGED <<now, fetchPreload, pendingThen, received, instCount,
                   robotRef, scene, jointMap, jointVal, clipRef,
                   readyCalls, threw, fixedVars>>

\* A re-render of the host hands FetchRobot new onReady / onIntroCamera
\* closures, so its effect is cleaned up and run again.
RerenderHeroCore(v) ==
    /\ v \in Heroes
    /\ ~MicrotaskPending
    /\ mounted[v]
    /\ effectRuns[v] < MaxEffectRuns
    /\ scene' = [scene EXCEPT ![v] = @ \ {robotRef[v]}]
    /\ effectRuns' = [effectRuns EXCEPT ![v] = @ + 1]
    /\ EnsureFetchPreload(req[v])
    /\ pendingThen' = [pendingThen EXCEPT ![v] = @ + 1]
    /\ UNCHANGED <<now, mounted, req, received, instCount, robotRef, jointMap,
                   jointVal, clipRef, status, readyCalls, threw>>

RerenderHero(v) == RerenderHeroCore(v) /\ UNCHANGED fixedVars

(***************************************************************************)
(* Loader completion.                                                      *)
(***************************************************************************)
\* The model instance id a viewer creates next.
NextInst(v) == instCount[v] + 1

\* Pose of a freshly loaded demo model: the base pose on the joints the
\* registry holds, 0 elsewhere.
BasePoseJoints(registry) ==
    [j \in JointNames |->
        IF j \in DOMAIN BasePose /\ j \in registry THEN R(BasePose[j]) ELSE R(0)]

\* The load started by the cache succeeds: resolve(robot).
CacheLoadSucceed(i) ==
    /\ i \in DOMAIN loads
    /\ ~MicrotaskPending
    /\ loads[i].owner = "cache"
    /\ loads[i].status = "pending"
    /\ loads' = [loads EXCEPT ![i].status = "ok"]
    /\ fetchPreload' = [fetchPreload EXCEPT !.state = "resolved",
                                            !.value = loads[i].asset]
    /\ UNCHANGED <<now, mounted, req, effectRuns, pendingThen, received,
                   instCount, robotRef, scene, jointMap, jointVal, clipRef,
                   status, readyCalls, threw, fixedVars>>

\* The load started by the cache fails: resolve(null).  Nothing else is told.
CacheLoadFail(i) ==
    /\ i \in DOMAIN loads
    /\ ~MicrotaskPending
    /\ loads[i].owner = "cache"
    /\ loads[i].status = "pending"
    /\ loads' = [loads EXCEPT ![i].status = "error"]
    /\ fetchPreload' = [fetchPreload EXCEPT !.state = "resolved", !.value = Null]
    /\ UNCHANGED <<now, mounted, req, effectRuns, pendingThen, received,
                   instCount, robotRef, scene, jointMap, jointVal, clipRef,
                   status, readyCalls, threw, fixedVars>>

\* A mesh or material of the cache's load fails: its LoadingManager has no
\* onError handler.
CacheAssetError(i) ==
    /\ i \in DOMAIN loads
    /\ ~MicrotaskPending
    /\ loads[i].owner = "cache"
    /\ loads[i].status # "error"
    /\ ~loads[i].meshFailed
    /\ loads' = [loads EXCEPT ![i].meshFailed = TRUE]
    /\ UNCHANGED <<now, fetchPreload, mounted, req, effectRuns,
                   pendingThen, received, instCount, robotRef, scene, jointMap,
                   jointVal, clipRef, status, readyCalls, threw, fixedVars>>

\* The demo viewer's load callback: the robot itself becomes the instance.
DemoLoadSucceed(i) ==
    /\ i \in DOMAIN loads
    /\ ~MicrotaskPending
    /\ loads[i].owner \in Demos
    /\ loads[i].status = "pending"
    /\ LET v == loads[i].owner
           x == loads[i].asset
       IN  /\ loads' = [loads EXCEPT ![i].status = "ok"]
           /\ received' = [received EXCEPT ![v] = x]
           /\ instCount' = [instCount EXCEPT ![v] = NextInst(v)]
           /\ robotRef' = [robotRef EXCEPT ![v] = NextInst(v)]
           /\ jointMap' = [jointMap EXCEPT ![v] = JointsOf(x)]
           /\ scene' = [scene EXCEPT ![v] = @ \cup {NextInst(v)}]
           /\ jointVal' = [jointVal EXCEPT ![v] = BasePoseJoints(JointsOf(x))]
           /\ status' = [status EXCEPT ![v] = [loading |-> FALSE, error |-> Null]]
    /\ UNCHANGED <<now, fetchPreload, mounted, req, effectRuns, pendingThen,
                   clipRef, readyCalls, threw, fixedVars>>

\* The demo viewer's error callback.
DemoLoadFail(i) ==
    /\ i \in DOMAIN loads
    /\ ~MicrotaskPending
    /\ loads[i].owner \in Demos
    /\ loads[i].status = "pending"
    /\ LET v == loads[i].owner
       IN  /\ loads' = [loads EXCEPT ![i].status = "error"]
           /\ status' = [status EXCEPT
                 ![v] = [loading |-> FALSE, error |-> "Failed to load URDF"]]
    /\ UNCHANGED <<now, fetchPreload, mounted, req, effectRuns, pendingThen,
                   received, instCount, robotRef, scene, jointMap, jointVal,
                   clipRef, readyCalls, threw, fixedVars>>

\* manager.onError of the demo viewer: a mesh or material failed.
DemoAssetError(i) ==
    /\ i \in DOMAIN loads
    /\ ~MicrotaskPending
    /\ loads[i].owner \in Demos
    /\ loads[i].status # "error"
    /\ ~loads[i].meshFailed
    /\ loads' = [loads EXCEPT ![i].meshFailed = TRUE]
    /\ LET v == loads[i].owner
       IN  /\ status' = [status EXCEPT
                 ![v] = [loading |-> FALSE, error |-> "Could not load asset"]]
    /\ UNCHANGED <<now, fetchPreload, mounted, req, effectRuns,
                   pendingThen, received, instCount, robotRef, scene, jointMap,
                   jointVal, clipRef, readyCalls, threw, fixedVars>>

(***************************************************************************)
(* The hero viewer's .then callback of FetchRobot.                         *)
(***************************************************************************)
\* if (!preloaded) return;
InstantiableAlways(preloaded) == TRUE

Instantiable(preloaded) == preloaded # Null

ThenRunCore(v) ==
    /\ v \in Heroes
    /\ fetchPreload.state = "resolved"
    /\ pendingThen[v] > 0
    /\ pendingThen' = [pendingThen EXCEPT ![v] = @ - 1]
    /\ received' = [received EXCEPT ![v] = fetchPreload.value]
    /\ LET preloaded == fetchPreload.value
       IN  IF ~Instantiable(preloaded)
           THEN UNCHANGED <<instCount, robotRef, scene, jointMap, jointVal,
                            clipRef, readyCalls, threw>>
           ELSE IF preloaded = Null
           THEN \* preloaded.clone(true) on null throws
                /\ threw' = [threw EXCEPT ![v] = TRUE]
                /\ UNCHANGED <<instCount, robotRef, scene, jointMap, jointVal,
                               clipRef, readyCalls>>
           ELSE /\ instCount' = [instCount EXCEPT ![v] = NextInst(v)]
                /\ robotRef' = [robotRef EXCEPT ![v] = NextInst(v)]
                /\ scene' = [scene EXCEPT ![v] = @ \cup {NextInst(v)}]
                /\ jointMap' = [jointMap EXCEPT ![v] = JointsOf(preloaded)]
                /\ jointVal' = [jointVal EXCEPT ![v] = ZeroJoints]
                \* onReady: onLoaded(), playClip(introPoseClip)
                /\ readyCalls' = [readyCalls EXCEPT ![v] = @ + 1]
                /\ clipRef' = [clipRef EXCEPT
                      ![v] = [clip |-> "intro-pose", start |-> now]]
                /\ UNCHANGED threw
    /\ UNCHANGED <<now, fetchPreload, loads, mounted, req, effectRuns, status>>

ThenRun(v) == ThenRunCore(v) /\ UNCHANGED fixedVars

(***************************************************************************)
(* Playback.                                                               *)
(***************************************************************************)
\* playClip of the demo viewer, reached from the clip buttons once
\* onPlayReady has handed it to the page (at mount).
PlayKeepStart(v, name) ==
    /\ v \in Demos
    /\ ~MicrotaskPending
    /\ mounted[v]
    /\ clipRef' = [clipRef EXCEPT ![v] =
                      [clip |-> name,
                       start |-> IF clipRef[v].clip = Null THEN now
                                 ELSE clipRef[v].start]]
    /\ UNCHANGED <<now, fetchPreload, loads, mounted, req, effectRuns,
                   pendingThen, received, instCount, robotRef, scene, jointMap,
                   jointVal, status, readyCalls, threw, fixedVars>>

Play(v, name) ==
    /\ v \in Demos
    /\ ~MicrotaskPending
    /\ mounted[v]
    /\ clipRef' = [clipRef EXCEPT ![v] = [clip |-> name, start |-> now]]
    /\ UNCHANGED <<now, fetchPreload, loads, mounted, req, effectRuns,
                   pendingThen, received, instCount, robotRef, scene, jointMap,
                   jointVal, status, readyCalls, threw, fixedVars>>

\* The clip section of a frame callback of viewer v at time t1: the
\* playback record, the joint angles and the joints written afterwards.
ClipStep(v, t1) ==
    IF ~mounted[v] \/ robotRef[v] = 0 \/ clipRef[v].clip = Null
    THEN [clipRef |-> clipRef[v], jointVal |-> jointVal[v]]
    ELSE LET clip == ClipOf(clipRef[v].clip)
             elapsed == t1 - clipRef[v].start
         IN  IF Finished(clip, elapsed)
             THEN [clipRef |-> NoClip, jointVal |-> jointVal[v]]
             ELSE LET w == ClipWrites(clip, elapsed, jointMap[v])
                  IN  [clipRef |-> clipRef[v],
                       jointVal |-> [j \in JointNames |->
                                       IF j \in DOMAIN w THEN w[j]
                                       ELSE jointVal[v][j]]]

\* One render frame, d > 0 time units after the previous task: the frame
\* callback of every mounted viewer runs.
Frame(d) ==
    /\ ~MicrotaskPending
    /\ now + d <= MaxNow
    /\ \E v \in Viewers : mounted[v]
    /\ now' = now + d
    /\ LET cs == [v \in Viewers |-> ClipStep(v, now + d)]
       IN  /\ clipRef' = [v \in Viewers |-> cs[v].clipRef]
           /\ jointVal' = [v \in Viewers |-> cs[v].jointVal]
    /\ UNCHANGED <<fetchPreload, loads, mounted, req, effectRuns, pendingThen,
                   received, instCount, robotRef, scene, jointMap, status,
                   readyCalls, threw, fixedVars>>

(***************************************************************************)
(* The interpolation check: a clip drawn from the bounded set of all clips *)
(* is sampled by the frame computation at an elapsed time.                 *)
(***************************************************************************)
\* Joint maps of a keyframe: no joint, joint a at 0 or 1, or joint a at 2
\* together with joint b at 1.
KeyframeJoints ==
    { m \in UNION { [S -> {0, 1, 2}] : S \in SUBSET ClipJointNames } :
        /\ "b" \in DOMAIN m => (m["b"] = 1 /\ "a" \in DOMAIN m /\ m["a"] = 2)
        /\ ("a" \in DOMAIN m /\ m["a"] = 2) => "b" \in DOMAIN m }

KeyframeSet == [time : 0..MaxTime, joints : KeyframeJoints]

\* Keyframe times never decrease and, as in every clip of the program, the
\* first keyframe is at time 0.
Sorted(frames) ==
    /\ frames[1].time = 0
    /\ \A i \in 1..(Len(frames) - 1) : frames[i].time <= frames[i + 1].time

AllFrameSeqs ==
    { fs \in UNION { [1..n -> KeyframeSet] : n \in 1..MaxFrames } : Sorted(fs) }

AllClips == [name : {"any"}, loop : BOOLEAN, frames : AllFrameSeqs]

ElapsedSet == 0..(MaxTime + 1)

\* THREE.MathUtils.clamp(value, min, max)
ClampUpper(value, min, max) == MathMin(max, value)
Clamp(value, min, max) == MathMax(min, MathMin(max, value))

\* degToRad(targetX * 50) and degToRad(targetY * 30), in degrees
DesiredPan(target) ==
    RMul(Clamp(IF target.active THEN target.x ELSE R(0), R(-1), R(1)), R(50))

DesiredTilt(target) ==
    RMul(Clamp(IF target.active THEN target.y ELSE R(0), R(-1), R(1)), R(30))

\* The head follow of one frame: each head joint the registry holds moves
\* towards its desired angle; a joint it lacks is passed over.
HeadFollowAll(vals, registry, target) ==
    [j \in JointNames |->
        IF j = "head_pan_joint"
        THEN Lerp(vals[j], DesiredPan(target), Smoothing)
        ELSE IF j = "head_tilt_joint"
        THEN Lerp(vals[j], DesiredTilt(target), Smoothing)
        ELSE vals[j]]

HeadFollow(vals, registry, target) ==
    [j \in JointNames |->
        IF j = "head_pan_joint" /\ j \in registry
        THEN Lerp(vals[j], DesiredPan(target), Smoothing)
        ELSE IF j = "head_tilt_joint" /\ j \in registry
        THEN Lerp(vals[j], DesiredTilt(target), Smoothing)
        ELSE vals[j]]

\* What the frame computation yields for a clip at an elapsed time, with
\* every named joint in the registry.
Sample(clip, elapsed) ==
    IF Finished(clip, elapsed)
    THEN [finished |-> TRUE, writes |-> <<>>]
    ELSE [finished |-> FALSE, writes |-> ClipWrites(clip, elapsed, JointNames)]

\* The same for a model whose registry holds the joint names reg only.
SampleIn(clip, elapsed, reg) ==
    IF Finished(clip, elapsed)
    THEN [finished |-> TRUE, writes |-> <<>>]
    ELSE [finished |-> FALSE, writes |-> ClipWrites(clip, elapsed, reg)]

\* The joint angles a tick leaves on a model at rest with registry reg:
\* the writes of the clip section, then the head follow towards target.
AfterWrites(vals, writes) ==
    [j \in JointNames |-> IF j \in DOMAIN writes THEN writes[j] ELSE vals[j]]

SampleHead(writes, reg) ==
    HeadFollow(AfterWrites(ZeroJoints, writes), reg, CornerTarget)

\* The registries of the models: jointMapRef.current of a loaded asset.
Registries == {JointsOf(x) : x \in Assets}

SampleInit ==
    /\ SysInit
    /\ cast = {}
    /\ sClip \in AllClips
    /\ sElapsed = 0
    /\ sOut = Sample(sClip, 0)
    /\ sRegOut = [reg \in Registries |-> SampleIn(sClip, 0, reg)]
    /\ sHead = [reg \in Registries |-> SampleHead(sRegOut[reg].writes, reg)]

\* The computation keeps nothing from one sample to the next, so a
\* behaviour takes its samples from the initial state.
SampleAt(e) ==
    /\ e \in ElapsedSet
    /\ sElapsed = 0
    /\ sElapsed' = e
    /\ sOut' = Sample(sClip, e)
    /\ sRegOut' = [reg \in Registries |-> SampleIn(sClip, e, reg)]
    /\ sHead' = [reg \in Registries |-> SampleHead(sRegOut'[reg].writes, reg)]
    /\ UNCHANGED <<sClip, sysVars, camVars, hostVars, demoVars, pageVars,
                   resetLoops, home>>

SampleNext == \E e \in ElapsedSet : SampleAt(e)

SampleSpec == SampleInit /\ [][SampleNext]_vars

(***************************************************************************)
(* The hero viewer with its camera, its inactivity reset and its head      *)
(* follow: one FetchHeroViewer, given the prop enableInteraction.          *)
(***************************************************************************)
MaxCamNow == 7

CamViewer == "h1"

CamCast == {CamViewer}

\* const eased = t < 0.5 ? 2 * t * t : -1 + (4 - 2 * t) * t
Eased(t) ==
    IF RLt(t, <<1, 2>>) THEN RMul(R(2), RMul(t, t))
    ELSE RAdd(R(-1), RMul(RSub(R(4), RMul(R(2), t)), t))

\* Math.min(1, (now - start) / duration)
Progress(start, t1, duration) == MathMin(R(1), RDiv(R(t1 - start), R(duration)))

\* Vector3.lerpVectors(v1, v2, alpha) = v1 + (v2 - v1) * alpha
LerpVectors(v1, v2, alpha) == RAdd(v1, RMul(RSub(v2, v1), alpha))

\* Mount with enableInteraction = e: the effect on enableInteraction finds
\* nothing to clear, the inactivity effect attaches its listeners and arms
\* the timer unless interaction is disabled, FetchRobot starts its load.
CamMount(e, x) ==
    /\ cast = CamCast
    /\ MountHeroCore(CamViewer, x)
    /\ enableInteraction' = e
    /\ listening' = e
    /\ timeout' = IF e THEN now + InactivityWindow ELSE timeout
    /\ UNCHANGED <<introCamAnim, resetAnim, camPos, camTarget, defaultCamPos,
                   headTarget, lastInput, cast, idleVars>>

\* The host changes enableInteraction: the effect on it clears the clip
\* and the head target when interaction is now disabled, and the re-render
\* runs FetchRobot's effect again.  The inactivity effect does not re-run.
CamSetEnable(e) ==
    /\ cast = CamCast
    /\ ~MicrotaskPending
    /\ mounted[CamViewer]
    /\ e # enableInteraction
    /\ effectRuns[CamViewer] < MaxEffectRuns
    /\ enableInteraction' = e
    /\ clipRef' = IF e THEN clipRef ELSE [clipRef EXCEPT ![CamViewer] = NoClip]
    /\ headTarget' = IF e THEN headTarget ELSE HeadIdle
    /\ scene' = [scene EXCEPT ![CamViewer] = @ \ {robotRef[CamViewer]}]
    /\ effectRuns' = [effectRuns EXCEPT ![CamViewer] = @ + 1]
    /\ EnsureFetchPreload(req[CamViewer])
    /\ pendingThen' = [pendingThen EXCEPT ![CamViewer] = @ + 1]
    /\ UNCHANGED <<now, mounted, req, received, instCount, robotRef, jointMap,
                   jointVal, status, readyCalls, threw, introCamAnim,
                   resetAnim, timeout, listening, camPos, camTarget,
                   defaultCamPos, lastInput, cast, idleVars>>

\* A re-render of the host with the same props.
CamRerender ==
    /\ cast = CamCast
    /\ RerenderHeroCore(CamViewer)
    /\ UNCHANGED fixedVars

\* What the .then callback does to the head target and the camera: on a
\* model it resets the head target, puts the camera on the intro path
\* (onIntroCamera) and records the default pose.  The controls are there
\* while the viewer is mounted.
ThenCamera ==
    IF Instantiable(fetchPreload.value) /\ fetchPreload.value # Null
    THEN /\ headTarget' = HeadIdle
         /\ camPos' = IntroCamStart
         /\ camTarget' = IF mounted[CamViewer] THEN IntroCamTarget
                         ELSE camTarget
         /\ defaultCamPos' = IntroCamEnd
         /\ introCamAnim' = [active |-> TRUE, start |-> now]
    ELSE UNCHANGED <<headTarget, camPos, camTarget, defaultCamPos,
                     introCamAnim>>

CamThenRun ==
    /\ cast = CamCast
    /\ ThenRunCore(CamViewer)
    /\ ThenCamera
    /\ UNCHANGED <<enableInteraction, resetAnim, timeout, listening, lastInput,
                   cast, idleVars>>

\* resetTimer: clearTimeout, setTimeout(resetView, 2000)
ResetTimerLate(t0) == IF listening THEN t0 + InactivityWindow - 1 ELSE timeout

ResetTimer(t0) == IF listening THEN t0 + InactivityWindow ELSE timeout

\* A pointermove, wheel, touchstart, pointerdown or pointerenter on the
\* container; with move, a gesture the enabled OrbitControls turn into a
\* camera movement.
CamInputStops(move) ==
    /\ cast = CamCast
    /\ ~MicrotaskPending
    /\ mounted[CamViewer]
    /\ lastInput' = now
    /\ timeout' = ResetTimer(now)
    /\ camPos' = IF move /\ enableInteraction THEN OrbitPos ELSE camPos
    /\ camTarget' = IF move /\ enableInteraction THEN OrbitTarget ELSE camTarget
    /\ clipRef' = [clipRef EXCEPT ![CamViewer] = NoClip]
    /\ UNCHANGED <<now, fetchPreload, loads, mounted, req, effectRuns,
                   pendingThen, received, instCount, robotRef, scene, jointMap,
                   jointVal, status, readyCalls, threw, cast, idleVars,
                   enableInteraction, introCamAnim, resetAnim, listening,
                   defaultCamPos, headTarget>>

CamInput(move) ==
    /\ cast = CamCast
    /\ ~MicrotaskPending
    /\ mounted[CamViewer]
    /\ lastInput' = now
    /\ timeout' = ResetTimer(now)
    /\ camPos' = IF move /\ enableInteraction THEN OrbitPos ELSE camPos
    /\ camTarget' = IF move /\ enableInteraction THEN OrbitTarget ELSE camTarget
    /\ UNCHANGED <<sysVars, idleVars, enableInteraction, introCamAnim,
                   resetAnim, listening, defaultCamPos, headTarget>>

\* The animate callbacks waiting once smoothReset has run past its guard
\* if it left the frame it finds pending in the queue.
LoopsAfterStartKept == resetLoops + 1

\* The animate callbacks waiting once smoothReset has run past its guard:
\* if (resetAnimRef.current) cancelAnimationFrame(resetAnimRef.current),
\* then resetAnimRef.current = requestAnimationFrame(animate).
LoopsAfterStart == resetLoops - (IF resetAnim.active THEN 1 ELSE 0) + 1

\* The inactivity timer fires: resetView, smoothReset.
CamTimerFire ==
    /\ cast = CamCast
    /\ ~MicrotaskPending
    /\ timeout # NoTimer
    /\ now >= timeout
    /\ timeout' = NoTimer
    /\ resetAnim' =
          IF defaultCamPos = NoPos THEN resetAnim
          ELSE [active |-> TRUE, start |-> now,
                startPos |-> camPos, endPos |-> defaultCamPos,
                startTarget |-> camTarget, endTarget |-> IntroCamTarget]
    /\ resetLoops' = IF defaultCamPos = NoPos THEN resetLoops
                     ELSE LoopsAfterStart
    /\ UNCHANGED <<sysVars, restVars, enableInteraction, introCamAnim,
                   listening, camPos, camTarget, defaultCamPos, headTarget,
                   lastInput>>

\* The intro camera drift of a frame at time t1: position and record.
IntroStep(t1) ==
    IF ~enableInteraction /\ introCamAnim.active
    THEN LET t == Progress(introCamAnim.start, t1, IntroCamDuration)
         IN  [pos |-> LerpVectors(IntroCamStart, IntroCamEnd, Eased(t)),
              anim |-> IF RLeq(R(1), t)
                       THEN [introCamAnim EXCEPT !.active = FALSE]
                       ELSE introCamAnim]
    ELSE [pos |-> camPos, anim |-> introCamAnim]

\* animate of smoothReset at time t1, on camera position pos.
ResetStep(t1, pos) ==
    IF resetAnim.active
    THEN LET t == Progress(resetAnim.start, t1, ResetDuration)
         IN  [pos |-> LerpVectors(resetAnim.startPos, resetAnim.endPos, Eased(t)),
              target |-> LerpVectors(resetAnim.startTarget,
                                     resetAnim.endTarget, Eased(t)),
              anim |-> IF RLt(t, R(1)) THEN resetAnim ELSE NoReset]
    ELSE [pos |-> pos, target |-> camTarget, anim |-> resetAnim]

\* One animation frame, d > 0 time units after the previous task: the
\* frame callback of ClipRunner (intro camera, clip, default pose capture,
\* head follow), then animate of a running reset.
CamFrame(d) ==
    /\ cast = CamCast
    /\ ~MicrotaskPending
    /\ mounted[CamViewer]
    /\ now + d <= MaxCamNow
    /\ now' = now + d
    /\ LET intro == IntroStep(now + d)
           cs == ClipStep(CamViewer, now + d)
           jv == IF enableInteraction
                 THEN HeadFollow(cs.jointVal, jointMap[CamViewer], headTarget)
                 ELSE cs.jointVal
           reset == ResetStep(now + d, intro.pos)
       IN  /\ introCamAnim' = intro.anim
           /\ clipRef' = [clipRef EXCEPT ![CamViewer] = cs.clipRef]
           /\ jointVal' = [jointVal EXCEPT ![CamViewer] = jv]
           /\ defaultCamPos' = IF defaultCamPos = NoPos THEN intro.pos
                               ELSE defaultCamPos
           /\ camPos' = reset.pos
           /\ camTarget' = reset.target
           /\ resetAnim' = reset.anim
           /\ resetLoops' = IF resetAnim.active /\ ~reset.anim.active
                            THEN resetLoops - 1 ELSE resetLoops
    /\ UNCHANGED <<fetchPreload, loads, mounted, req, effectRuns, pendingThen,
                   received, instCount, robotRef, scene, jointMap, status,
                   readyCalls, threw, cast, restVars, enableInteraction,
                   timeout, listening, headTarget, lastInput>>

\* Time passes without an animation frame (the page is hidden: the
\* browser holds back animation frames, timers stay due).
CamPass(d) ==
    /\ cast = CamCast
    /\ ~MicrotaskPending
    /\ mounted[CamViewer]
    /\ now + d <= MaxCamNow
    /\ now' = now + d
    /\ UNCHANGED <<fetchPreload, loads, mounted, req, effectRuns, pendingThen,
                   received, instCount, robotRef, scene, jointMap, jointVal,
                   clipRef, status, readyCalls, threw, cast, idleVars, camVars>>

CamInit == SysInit /\ cast = CamCast /\ SampleIdle

CamNext ==
    \/ \E e \in BOOLEAN, x \in Assets : CamMount(e, x)
    \/ \E e \in BOOLEAN : CamSetEnable(e)
    \/ CamRerender
    \/ \E i \in 1..Len(loads) : CacheLoadSucceed(i)
    \/ \E i \in 1..Len(loads) : CacheLoadFail(i)
    \/ CamThenRun
    \/ \E move \in BOOLEAN : CamInput(move)
    \/ CamTimerFire
    \/ \E d \in 1..MaxStep : CamFrame(d)

CamSpec == CamInit /\ [][CamNext]_vars

\* The hero viewer on a page that may be hidden for a while.
ResetNext ==
    \/ \E e \in BOOLEAN, x \in Assets : CamMount(e, x)
    \/ \E i \in 1..Len(loads) : CacheLoadSucceed(i)
    \/ \E i \in 1..Len(loads) : CacheLoadFail(i)
    \/ CamThenRun
    \/ \E move \in BOOLEAN : CamInput(move)
    \/ CamTimerFire
    \/ \E d \in 1..MaxStep : CamFrame(d)
    \/ \E d \in 1..MaxStep : CamPass(d)

ResetSpec == CamInit /\ [][ResetNext]_vars

(***************************************************************************)
(* The pointer tracker of the interaction-gated viewer.                    *)
(***************************************************************************)
MaxHeadNow == 3

\* The mousemove events tried, and the sizes of the window they arrive in.
MouseEvents == {[clientX |-> 2, clientY |-> 2], [clientX |-> 1, clientY |-> -1]}

Viewports == {[innerWidth |-> 2, innerHeight |-> 2],
              [innerWidth |-> 0, innerHeight |-> 4]}

\* (e.clientX / (window.innerWidth || 1)) * 2 - 1
Normalized(client, size) ==
    RSub(RMul(RDiv(R(client), R(IF size = 0 THEN 1 ELSE size)), R(2)), R(1))

\* The target handleMove writes for event e in window w.
MoveTarget(e, w) ==
    [x |-> Clamp(Normalized(e.clientX, w.innerWidth), R(-1), R(1)),
     y |-> Clamp(Normalized(e.clientY, w.innerHeight), R(-1), R(1)),
     active |-> TRUE]

\* The enableInteraction that handleMove reads: the pointer effect has no
\* dependencies, so its handlers close over the props of the render that
\* mounted the viewer, the render in which the inactivity effect attached
\* its listeners or did not.
CapturedEnable == listening

\* A mousemove on the window.
PointerMove(e, w) ==
    /\ cast = CamCast
    /\ ~MicrotaskPending
    /\ mounted[CamViewer]
    /\ headTarget' = IF CapturedEnable THEN MoveTarget(e, w) ELSE headTarget
    /\ UNCHANGED <<sysVars, idleVars, enableInteraction, introCamAnim,
                   resetAnim, timeout, listening, camPos, camTarget,
                   defaultCamPos, lastInput>>

\* A mouseleave or a blur on the window.
PointerLeave ==
    /\ cast = CamCast
    /\ ~MicrotaskPending
    /\ mounted[CamViewer]
    /\ headTarget' = HeadIdle
    /\ UNCHANGED <<sysVars, idleVars, enableInteraction, introCamAnim,
                   resetAnim, timeout, listening, camPos, camTarget,
                   defaultCamPos, lastInput>>

HeadFrame(d) == now + d <= MaxHeadNow /\ CamFrame(d)

\* The events of the viewer and its window; the input events on the
\* container are left to CamSpec.
HeadNext ==
    \/ \E e \in BOOLEAN, x \in Assets : CamMount(e, x)
    \/ \E e \in BOOLEAN : CamSetEnable(e)
    \/ CamRerender
    \/ \E i \in 1..Len(loads) : CacheLoadSucceed(i)
    \/ \E i \in 1..Len(loads) : CacheLoadFail(i)
    \/ CamThenRun
    \/ CamTimerFire
    \/ \E e \in MouseEvents, w \in Viewports : PointerMove(e, w)
    \/ PointerLeave
    \/ \E d \in 1..MaxStep : HeadFrame(d)

HeadSpec == CamInit /\ [][HeadNext]_vars

(***************************************************************************)
(* The life of the interaction-gated viewer, from mount to after unmount,  *)
(* with the timer its onReady arms.                                        *)
(***************************************************************************)
MaxLifeNow == 6

\* setTimeout(() => onWaveComplete?.(), introMs + 1000): the 1000
WaveCompleteBuffer == 1

RemoveAt(seq, i) == [k \in 1..(Len(seq) - 1) |-> IF k < i THEN seq[k] ELSE seq[k + 1]]

\* The .then callback with all of onReady: on a model, a timer for
\* onWaveComplete is armed and no handle of it is kept.
LifeThenRun ==
    /\ cast = CamCast
    /\ ThenRunCore(CamViewer)
    /\ ThenCamera
    /\ timers' =
          IF Instantiable(fetchPreload.value) /\ fetchPreload.value # Null
          THEN Append(timers,
                      [fn |-> "onWaveComplete",
                       due |-> now + Duration(IntroPoseClip) + WaveCompleteBuffer,
                       start |-> readyCalls[CamViewer] + 1])
          ELSE timers
    /\ UNCHANGED <<enableInteraction, resetAnim, timeout, listening, lastInput,
                   cast, sampleVars, demoVars, pageVars, resetLoops, home,
                   waveCompleteCalls, startReady, starts>>

\* Unmount: the cleanups of the effects run.  FetchRobot's removes the
\* current instance from the scene, the inactivity effect's clears its
\* timeout and detaches its listeners.
LifeUnmount ==
    /\ cast = CamCast
    /\ ~MicrotaskPending
    /\ mounted[CamViewer]
    /\ mounted' = [mounted EXCEPT ![CamViewer] = FALSE]
    /\ scene' = [scene EXCEPT ![CamViewer] = @ \ {robotRef[CamViewer]}]
    /\ timeout' = IF listening THEN NoTimer ELSE timeout
    /\ listening' = FALSE
    /\ UNCHANGED <<now, fetchPreload, loads, req, effectRuns, pendingThen,
                   received, instCount, robotRef, jointMap, jointVal, clipRef,
                   status, readyCalls, threw, cast, idleVars,
                   enableInteraction, introCamAnim, resetAnim, camPos,
                   camTarget, defaultCamPos, headTarget, lastInput>>

\* A frame of the mounted viewer.
LifeFrame(d) == now + d <= MaxLifeNow /\ CamFrame(d)

\* The animation frame a running smoothReset had requested, after the
\* unmount: animate moves the camera, then fails on the controls, which
\* are gone, and requests no further frame.
LifeAnimate(d) ==
    /\ cast = CamCast
    /\ ~MicrotaskPending
    /\ ~mounted[CamViewer]
    /\ resetAnim.active
    /\ now + d <= MaxLifeNow
    /\ now' = now + d
    /\ camPos' = ResetStep(now + d, camPos).pos
    /\ resetAnim' = NoReset
    /\ resetLoops' = resetLoops - 1
    /\ threw' = [threw EXCEPT ![CamViewer] = TRUE]
    /\ UNCHANGED <<fetchPreload, loads, mounted, req, effectRuns, pendingThen,
                   received, instCount, robotRef, scene, jointMap, jointVal,
                   clipRef, status, readyCalls, cast, restVars,
                   enableInteraction, introCamAnim, timeout, listening,
                   camTarget, defaultCamPos, headTarget, lastInput>>

\* Time passes after the unmount, with no frame.
LifePass(d) ==
    /\ cast = CamCast
    /\ ~MicrotaskPending
    /\ ~mounted[CamViewer]
    /\ effectRuns[CamViewer] > 0
    /\ ~resetAnim.active
    /\ now + d <= MaxLifeNow
    /\ now' = now + d
    /\ UNCHANGED <<fetchPreload, loads, mounted, req, effectRuns, pendingThen,
                   received, instCount, robotRef, scene, jointMap, jointVal,
                   clipRef, status, readyCalls, threw, cast, idleVars, camVars>>

\* A timer armed by onReady fires: onWaveComplete?.()
LifeTimerFire(i) ==
    /\ cast = CamCast
    /\ ~MicrotaskPending
    /\ i \in DOMAIN timers
    /\ timers[i].due <= now
    /\ timers' = RemoveAt(timers, i)
    /\ waveCompleteCalls' = waveCompleteCalls + 1
    /\ UNCHANGED <<sysVars, sampleVars, demoVars, pageVars, resetLoops, home,
                   camVars, startReady, starts>>

LifeNext ==
    \/ \E e \in BOOLEAN, x \in Assets : CamMount(e, x)
    \/ CamRerender
    \/ \E i \in 1..Len(loads) : CacheLoadSucceed(i)
    \/ \E i \in 1..Len(loads) : CacheLoadFail(i)
    \/ LifeThenRun
    \/ CamTimerFire
    \/ LifeUnmount
    \/ \E i \in 1..Len(timers) : LifeTimerFire(i)
    \/ \E d \in 1..MaxStep : LifeFrame(d)
    \/ \E d \in 1..MaxStep : LifeAnimate(d)
    \/ \E d \in 1..MaxStep : LifePass(d)

LifeSpec == CamInit /\ [][LifeNext]_vars

(***************************************************************************)
(* The always-on viewer: the looping dance from mount, the wave on the     *)
(* host's request, and the timers startWave arms.                          *)
(***************************************************************************)
WaveViewer == "h2"

WaveCast == {WaveViewer}

MaxWaveNow == 5

MaxStarts == 2

\* setTimeout(startDance, durationMs + 150): the 150
DanceDelay == 1

\* lerp(current, desired, 0.25)
FastSmoothing == <<1, 4>>

HeadFollowFast(vals, registry, target) ==
    [j \in JointNames |->
        IF j = "head_pan_joint" /\ j \in registry
        THEN Lerp(vals[j], DesiredPan(target), FastSmoothing)
        ELSE IF j = "head_tilt_joint" /\ j \in registry
        THEN Lerp(vals[j], DesiredTilt(target), FastSmoothing)
        ELSE vals[j]]

\* Mount: FetchRobot starts its load, the mount effect sets playWaveRef
\* and calls startDance().
WaveMount(x) ==
    /\ cast = WaveCast
    /\ ~MicrotaskPending
    /\ ~mounted[WaveViewer]
    /\ effectRuns[WaveViewer] = 0
    /\ mounted' = [mounted EXCEPT ![WaveViewer] = TRUE]
    /\ req' = [req EXCEPT ![WaveViewer] = x]
    /\ effectRuns' = [effectRuns EXCEPT ![WaveViewer] = 1]
    /\ EnsureFetchPreload(x)
    /\ pendingThen' = [pendingThen EXCEPT ![WaveViewer] = @ + 1]
    /\ clipRef' = [clipRef EXCEPT
          ![WaveViewer] = [clip |-> "dance", start |-> now]]
    /\ UNCHANGED <<now, received, instCount, robotRef, scene, jointMap,
                   jointVal, status, readyCalls, threw, fixedVars>>

\* The .then callback: on a model, the instance enters the scene, the
\* head target is reset, and onReady calls onLoaded and hands startWave
\* to the host.  No clip is played.
WaveThenRun ==
    /\ cast = WaveCast
    /\ fetchPreload.state = "resolved"
    /\ pendingThen[WaveViewer] > 0
    /\ pendingThen' = [pendingThen EXCEPT ![WaveViewer] = @ - 1]
    /\ received' = [received EXCEPT ![WaveViewer] = fetchPreload.value]
    /\ LET preloaded == fetchPreload.value
           v == WaveViewer
       IN  IF ~Instantiable(preloaded)
           THEN UNCHANGED <<instCount, robotRef, scene, jointMap, jointVal,
                            readyCalls, threw, headTarget, startReady>>
           ELSE IF preloaded = Null
           THEN /\ threw' = [threw EXCEPT ![v] = TRUE]
                /\ UNCHANGED <<instCount, robotRef, scene, jointMap, jointVal,
                               readyCalls, headTarget, startReady>>
           ELSE /\ instCount' = [instCount EXCEPT ![v] = NextInst(v)]
                /\ robotRef' = [robotRef EXCEPT ![v] = NextInst(v)]
                /\ scene' = [scene EXCEPT ![v] = @ \cup {NextInst(v)}]
                /\ jointMap' = [jointMap EXCEPT ![v] = JointsOf(preloaded)]
                /\ jointVal' = [jointVal EXCEPT ![v] = ZeroJoints]
                /\ headTarget' = HeadIdle
                /\ readyCalls' = [readyCalls EXCEPT ![v] = @ + 1]
                /\ startReady' = TRUE
                /\ UNCHANGED threw
    /\ UNCHANGED <<now, fetchPreload, loads, mounted, req, effectRuns, status,
                   clipRef, cast, sampleVars, demoVars, pageVars, resetLoops,
                   home, enableInteraction, introCamAnim, resetAnim, timeout,
                   listening, camPos, camTarget, defaultCamPos, lastInput,
                   timers, waveCompleteCalls, starts>>

\* The host calls startWave: the wave clip is played and two timers are
\* armed, one for onWaveComplete, one for startDance.
StartWave ==
    /\ cast = WaveCast
    /\ ~MicrotaskPending
    /\ startReady
    /\ starts < MaxStarts
    /\ now + Duration(WaveClip) + DanceDelay <= MaxWaveNow
    /\ starts' = starts + 1
    /\ clipRef' = [clipRef EXCEPT
          ![WaveViewer] = [clip |-> "wave", start |-> now]]
    /\ timers' = timers \o
          <<[fn |-> "onWaveComplete", due |-> now + Duration(WaveClip),
             start |-> starts + 1],
            [fn |-> "startDance",
             due |-> now + Duration(WaveClip) + DanceDelay,
             start |-> starts + 1]>>
    /\ UNCHANGED <<now, fetchPreload, loads, mounted, req, effectRuns,
                   pendingThen, received, instCount, robotRef, scene, jointMap,
                   jointVal, status, readyCalls, threw, cast, sampleVars,
                   demoVars, pageVars, resetLoops, home, camVars,
                   waveCompleteCalls, startReady>>

\* Timers fire in the order of their due times, and in the order they
\* were armed when due together.
FiresLast(i) ==
    \A k \in DOMAIN timers :
        \/ timers[i].due > timers[k].due
        \/ timers[i].due = timers[k].due /\ i >= k

FiresFirst(i) ==
    \A k \in DOMAIN timers :
        \/ timers[i].due < timers[k].due
        \/ timers[i].due = timers[k].due /\ i <= k

\* The next timer fires, when it is due: onWaveComplete?.() or
\* startDance().
WaveTimerFire(i) ==
    /\ cast = WaveCast
    /\ ~MicrotaskPending
    /\ i \in DOMAIN timers
    /\ FiresFirst(i)
    /\ now' = IF now < timers[i].due THEN timers[i].due ELSE now
    /\ timers' = RemoveAt(timers, i)
    /\ IF timers[i].fn = "onWaveComplete"
       THEN /\ waveCompleteCalls' = waveCompleteCalls + 1
            /\ UNCHANGED clipRef
       ELSE /\ clipRef' = [clipRef EXCEPT
                  ![WaveViewer] = [clip |-> "dance", start |-> now']]
            /\ UNCHANGED waveCompleteCalls
    /\ UNCHANGED <<fetchPreload, loads, mounted, req, effectRuns, pendingThen,
                   received, instCount, robotRef, scene, jointMap, jointVal,
                   status, readyCalls, threw, cast, sampleVars, demoVars,
                   pageVars, resetLoops, home, camVars, startReady, starts>>

\* One animation frame: the clip, then the head follow.
WaveFrame(d) ==
    /\ cast = WaveCast
    /\ ~MicrotaskPending
    /\ mounted[WaveViewer]
    /\ now + d <= MaxWaveNow
    /\ now' = now + d
    /\ LET cs == ClipStep(WaveViewer, now + d)
       IN  /\ clipRef' = [clipRef EXCEPT ![WaveViewer] = cs.clipRef]
           /\ jointVal' = [jointVal EXCEPT
                 ![WaveViewer] = HeadFollowFast(cs.jointVal,
                                                jointMap[WaveViewer],
                                                headTarget)]
    /\ UNCHANGED <<fetchPreload, loads, mounted, req, effectRuns, pendingThen,
                   received, instCount, robotRef, scene, jointMap, status,
                   readyCalls, threw, cast, idleVars, camVars>>

WaveInit == SysInit /\ cast = WaveCast /\ SampleIdle

WaveNext ==
    \/ \E x \in Assets : WaveMount(x)
    \/ RerenderHero(WaveViewer)
    \/ \E i \in 1..Len(loads) : CacheLoadSucceed(i)
    \/ \E i \in 1..Len(loads) : CacheLoadFail(i)
    \/ WaveThenRun
    \/ StartWave
    \/ \E i \in 1..Len(timers) : WaveTimerFire(i)
    \/ \E d \in 1..MaxStep : WaveFrame(d)

WaveSpec == WaveInit /\ [][WaveNext]_vars

\* A microtask runs as soon as the running task ends, and a timer fires
\* once it is due.
FairWaveSpec ==
    /\ WaveSpec
    /\ WF_vars(WaveThenRun)
    /\ WF_vars(\E i \in 1..Len(timers) : WaveTimerFire(i))

(***************************************************************************)
(* The home page around the hero viewer: loader overlay, full-screen hero, *)
(* content.                                                                *)
(***************************************************************************)
MaxHomeNow == 3

\* }, 5000);
HomeLoaderDelay == 5

\* Home renders for the first time and mounts the viewer, with its
\* default enableInteraction = true.
HomeMount(heroSeen, x) ==
    /\ cast = CamCast
    /\ MountHeroCore(CamViewer, x)
    /\ listening' = TRUE
    /\ timeout' = now + InactivityWindow
    /\ home' = HomeAt(heroSeen)
    /\ UNCHANGED <<enableInteraction, introCamAnim, resetAnim, camPos,
                   camTarget, defaultCamPos, headTarget, lastInput, cast,
                   sampleVars, hostVars, demoVars, pageVars, resetLoops>>

\* The timer handleLoaded arms on a first visit.
HideLoaderTimer == [fn |-> "hideLoader", due |-> now + HomeLoaderDelay,
                    start |-> readyCalls[CamViewer] + 1]

\* The timer onReady arms.
WaveCompleteTimer ==
    [fn |-> "onWaveComplete",
     due |-> now + Duration(IntroPoseClip) + WaveCompleteBuffer,
     start |-> readyCalls[CamViewer] + 1]

\* The .then callback under Home: on a model, onReady calls onLoaded,
\* which is handleLoaded, plays the intro pose and arms the timer of
\* onWaveComplete; on null it returns.
HomeThenRun ==
    /\ cast = CamCast
    /\ ThenRunCore(CamViewer)
    /\ ThenCamera
    /\ IF Instantiable(fetchPreload.value) /\ fetchPreload.value # Null
       THEN IF home.firstVisit
            THEN /\ timers' = timers \o <<HideLoaderTimer, WaveCompleteTimer>>
                 /\ home' = home
            ELSE /\ timers' = Append(timers, WaveCompleteTimer)
                 /\ home' = [home EXCEPT !.showLoader = FALSE,
                                         !.compact = TRUE,
                                         !.contentVisible = TRUE]
       ELSE UNCHANGED <<timers, home>>
    /\ UNCHANGED <<enableInteraction, resetAnim, timeout, listening, lastInput,
                   cast, sampleVars, demoVars, pageVars, resetLoops,
                   waveCompleteCalls, startReady, starts>>

\* Time passes until the next timer of Home or onReady is due, and it
\* fires: the loader is hidden (startWaveRef.current is null, the viewer
\* never calls onStartReady), or handleWaveComplete runs.
HomeTimerFire(i) ==
    /\ cast = CamCast
    /\ ~MicrotaskPending
    /\ i \in DOMAIN timers
    /\ FiresFirst(i)
    /\ now' = IF now < timers[i].due THEN timers[i].due ELSE now
    /\ timers' = RemoveAt(timers, i)
    /\ IF timers[i].fn = "onWaveComplete"
       THEN /\ waveCompleteCalls' = waveCompleteCalls + 1
            /\ home' = [home EXCEPT !.compact = TRUE,
                                    !.contentVisible = TRUE,
                                    !.firstVisit = FALSE,
                                    !.heroSeen = TRUE]
       ELSE /\ home' = [home EXCEPT !.showLoader = FALSE]
            /\ UNCHANGED waveCompleteCalls
    /\ UNCHANGED <<fetchPreload, loads, mounted, req, effectRuns, pendingThen,
                   received, instCount, robotRef, scene, jointMap, jointVal,
                   clipRef, status, readyCalls, threw, cast, sampleVars,
                   demoVars, pageVars, resetLoops, camVars, startReady, starts>>

HomeFrame(d) == now + d <= MaxHomeNow /\ CamFrame(d)

HomeNext ==
    \/ \E heroSeen \in BOOLEAN, x \in Assets : HomeMount(heroSeen, x)
    \/ CamRerender
    \/ \E i \in 1..Len(loads) : CacheLoadSucceed(i)
    \/ \E i \in 1..Len(loads) : CacheLoadFail(i)
    \/ HomeThenRun
    \/ CamTimerFire
    \/ \E i \in 1..Len(timers) : HomeTimerFire(i)
    \/ \E d \in 1..MaxStep : HomeFrame(d)

HomeSpec == CamInit /\ [][HomeNext]_vars

\* A load ends, one way or the other; the callbacks of a resolved promise
\* run; a timer that is armed fires.
FairHomeSpec ==
    /\ HomeSpec
    /\ WF_vars(\E i \in 1..Len(loads) : CacheLoadSucceed(i) \/ CacheLoadFail(i))
    /\ WF_vars(HomeThenRun)
    /\ WF_vars(\E i \in 1..Len(timers) : HomeTimerFire(i))

(***************************************************************************)
(* The demo page: the camera fit of the load callback and the intro        *)
(* camera the page seeds from it.                                          *)
(***************************************************************************)
DemoViewer == "d1"

DemoCast == {DemoViewer}

MaxDemoNow == 8

\* const delayMs = 4000
DemoIntroDelay == 4

\* duration: 2.5
DemoIntroDuration == 3

\* center + (0, 0, r * 1.0) and center + (0, 0, r * 2.5)
StartFactor == R(1)

EndFactor == <<5, 2>>

\* The largest dimension of the bounding box of the model loaded.
ModelSizes == {R(0), <<1, 4>>, R(2)}

\* maxDim || 1
OrOne(maxDim) == IF maxDim = R(0) THEN R(1) ELSE maxDim

\* const radius = Math.max(0.5, maxDim || 1)
FitRadius(maxDim) == MathMax(<<1, 2>>, OrOne(maxDim))

\* center.clone().add(new THREE.Vector3(radius, radius * 0.2, radius))
FitStartPos(maxDim) ==
    <<FitRadius(maxDim), RMul(FitRadius(maxDim), <<1, 5>>), FitRadius(maxDim)>>

\* center.clone().add(new THREE.Vector3(0, 0, r))
AlongAxis(r) == <<R(0), R(0), r>>

\* The bounds that onIntroCamera reads.  FetchRobot's load effect runs
\* once, its dependencies never change, so the callback of its loader
\* holds the onIntroCamera of the render that mounted it, in which the
\* bounds state has its initial value.
BoundsAtMount == NoBounds

\* const r = bounds?.radius ?? 1
IntroRadius == IF BoundsAtMount.known THEN BoundsAtMount.radius ELSE R(1)

\* }, 800); // start wave shortly after intro begins
AutoWaveDelay == 1

\* playClip of the page is what onPlayReady handed over, at mount.
PlayClipReady == mounted[DemoViewer]

\* The auto-wave effect after a render in which the bounds are known or
\* not: [triggered, timer].  basePose is a new object in every render
\* and clips is memoised on it, so the effect's dependencies change with
\* every render: the cleanup of the previous run clears its timer, and
\* the body returns early once the flag is set.
AutoWaveEffect(boundsKnown) ==
    IF waveTriggered \/ ~PlayClipReady \/ ~boundsKnown
    THEN [triggered |-> waveTriggered, timer |-> NoWaveTimer]
    ELSE [triggered |-> TRUE,
          timer |-> [armed |-> TRUE, due |-> now + AutoWaveDelay]]

\* The load callback on success: the model enters the scene in its base
\* pose, the camera is fitted, onIntroCamera holds the camera and arms
\* the intro timer, onBounds stores the bounds; the page renders with the
\* bounds and its auto-wave effect runs.
DemoFitLoad(i, maxDim) ==
    /\ cast = DemoCast
    /\ i \in DOMAIN loads
    /\ ~MicrotaskPending
    /\ loads[i].owner = DemoViewer
    /\ loads[i].status = "pending"
    /\ LET v == DemoViewer
           x == loads[i].asset
           startPos == AlongAxis(RMul(IntroRadius, StartFactor))
           endPos == AlongAxis(RMul(IntroRadius, EndFactor))
       IN  /\ loads' = [loads EXCEPT ![i].status = "ok"]
           /\ received' = [received EXCEPT ![v] = x]
           /\ instCount' = [instCount EXCEPT ![v] = NextInst(v)]
           /\ robotRef' = [robotRef EXCEPT ![v] = NextInst(v)]
           /\ jointMap' = [jointMap EXCEPT ![v] = JointsOf(x)]
           /\ scene' = [scene EXCEPT ![v] = @ \cup {NextInst(v)}]
           /\ jointVal' = [jointVal EXCEPT ![v] = BasePoseJoints(JointsOf(x))]
           /\ status' = [status EXCEPT ![v] = [loading |-> FALSE, error |-> Null]]
           /\ demoCamPos' = FitStartPos(maxDim)
           /\ introHold' = [held |-> TRUE, startPos |-> startPos]
           /\ introTimer' = [armed |-> TRUE, due |-> now + DemoIntroDelay,
                             startPos |-> startPos, endPos |-> endPos]
           /\ bounds' = [known |-> TRUE, radius |-> OrOne(maxDim)]
           /\ waveTriggered' = AutoWaveEffect(TRUE).triggered
           /\ waveTimer' = AutoWaveEffect(TRUE).timer
    /\ UNCHANGED <<now, fetchPreload, mounted, req, effectRuns, pendingThen,
                   clipRef, readyCalls, threw, cast, sampleVars, camVars,
                   hostVars, cameraAnim, demoTarget, autoWaves, resetLoops,
                   home>>

\* The page renders again (a checkbox of the page, a status update of
\* the viewer, a new playClip): its auto-wave effect runs again.
DemoRerender ==
    /\ cast = DemoCast
    /\ ~MicrotaskPending
    /\ mounted[DemoViewer]
    /\ waveTriggered' = AutoWaveEffect(bounds.known).triggered
    /\ waveTimer' = AutoWaveEffect(bounds.known).timer
    /\ UNCHANGED <<sysVars, sampleVars, camVars, hostVars, demoVars, autoWaves,
                   resetLoops, home>>

\* The auto-wave timer fires: playClip(clips.wave).
DemoWaveTimerFire ==
    /\ cast = DemoCast
    /\ ~MicrotaskPending
    /\ waveTimer.armed
    /\ now >= waveTimer.due
    /\ clipRef' = [clipRef EXCEPT ![DemoViewer] = [clip |-> "wave", start |-> now]]
    /\ waveTimer' = NoWaveTimer
    /\ autoWaves' = autoWaves + 1
    /\ UNCHANGED <<now, fetchPreload, loads, mounted, req, effectRuns,
                   pendingThen, received, instCount, robotRef, scene, jointMap,
                   jointVal, status, readyCalls, threw, cast, sampleVars,
                   camVars, hostVars, demoVars, waveTriggered, resetLoops,
                   home>>

\* The intro timer fires: the hold ends and the animation starts.
DemoIntroTimerFire ==
    /\ cast = DemoCast
    /\ ~MicrotaskPending
    /\ introTimer.armed
    /\ now >= introTimer.due
    /\ introHold' = NoHold
    /\ cameraAnim' = [active |-> TRUE, start |-> now,
                      startPos |-> introTimer.startPos,
                      endPos |-> introTimer.endPos]
    /\ introTimer' = NoIntroTimer
    /\ UNCHANGED <<sysVars, sampleVars, camVars, hostVars, bounds, demoCamPos,
                   demoTarget, pageVars, resetLoops, home>>

\* IntroCamera's frame callback if it kept following its last animation.
DemoIntroStepAuto(t1) ==
    IF ~bounds.known
    THEN [pos |-> demoCamPos, target |-> demoTarget, anim |-> cameraAnim]
    ELSE IF ~cameraAnim.active /\ introHold.held
    THEN [pos |-> introHold.startPos, target |-> DemoCenter,
          anim |-> cameraAnim]
    ELSE IF cameraAnim = NoCameraAnim
    THEN [pos |-> demoCamPos, target |-> demoTarget, anim |-> cameraAnim]
    ELSE LET t == Progress(cameraAnim.start, t1, DemoIntroDuration)
         IN  [pos |-> [k \in 1..3 |->
                        LerpVectors(cameraAnim.startPos[k],
                                    cameraAnim.endPos[k], t)],
              target |-> DemoCenter,
              anim |-> IF RLeq(R(1), t)
                       THEN [cameraAnim EXCEPT !.active = FALSE]
                       ELSE cameraAnim]

\* IntroCamera's frame callback at time t1: [pos, target, anim].
DemoIntroStep(t1) ==
    IF ~bounds.known
    THEN [pos |-> demoCamPos, target |-> demoTarget, anim |-> cameraAnim]
    ELSE IF ~cameraAnim.active /\ introHold.held
    THEN [pos |-> introHold.startPos, target |-> DemoCenter,
          anim |-> cameraAnim]
    ELSE IF ~cameraAnim.active
    THEN [pos |-> demoCamPos, target |-> demoTarget, anim |-> cameraAnim]
    ELSE LET t == Progress(cameraAnim.start, t1, DemoIntroDuration)
         IN  [pos |-> [k \in 1..3 |->
                        LerpVectors(cameraAnim.startPos[k],
                                    cameraAnim.endPos[k], t)],
              target |-> DemoCenter,
              anim |-> IF RLeq(R(1), t)
                       THEN [cameraAnim EXCEPT !.active = FALSE]
                       ELSE cameraAnim]

\* The user drags on the page's OrbitControls (rotate and pan are enabled):
\* camera and target move.
DemoOrbit ==
    /\ cast = DemoCast
    /\ ~MicrotaskPending
    /\ mounted[DemoViewer]
    /\ demoCamPos' = DemoOrbitPos
    /\ demoTarget' = DemoPannedTarget
    /\ UNCHANGED <<sysVars, sampleVars, camVars, hostVars, bounds, introHold,
                   introTimer, cameraAnim, pageVars, resetLoops, home>>

\* One animation frame of the demo page: the clip, then IntroCamera.
DemoFrame(d) ==
    /\ cast = DemoCast
    /\ ~MicrotaskPending
    /\ mounted[DemoViewer]
    /\ now + d <= MaxDemoNow
    /\ now' = now + d
    /\ LET cs == ClipStep(DemoViewer, now + d)
           intro == DemoIntroStep(now + d)
       IN  /\ clipRef' = [clipRef EXCEPT ![DemoViewer] = cs.clipRef]
           /\ jointVal' = [jointVal EXCEPT ![DemoViewer] = cs.jointVal]
           /\ demoCamPos' = intro.pos
           /\ demoTarget' = intro.target
           /\ cameraAnim' = intro.anim
    /\ UNCHANGED <<fetchPreload, loads, mounted, req, effectRuns, pendingThen,
                   received, instCount, robotRef, scene, jointMap, status,
                   readyCalls, threw, cast, sampleVars, camVars, hostVars,
                   bounds, introHold, introTimer, pageVars, resetLoops, home>>

DemoInit == SysInit /\ cast = DemoCast /\ SampleIdle

DemoNext ==
    \/ MountDemo(DemoViewer, DemoAsset)
    \/ \E i \in 1..Len(loads), maxDim \in ModelSizes : DemoFitLoad(i, maxDim)
    \/ \E i \in 1..Len(loads) : DemoLoadFail(i)
    \/ \E name \in DemoClipNames : Play(DemoViewer, name)
    \/ DemoIntroTimerFire
    \/ DemoRerender
    \/ DemoWaveTimerFire
    \/ DemoOrbit
    \/ \E d \in 1..MaxStep : DemoFrame(d)

DemoSpec == DemoInit /\ [][DemoNext]_vars

(***************************************************************************)
(* The system.                                                             *)
(***************************************************************************)
Next ==
    \/ \E v \in Heroes, x \in Assets : MountHero(v, x)
    \/ \E v \in Demos, x \in Assets : MountDemo(v, x)
    \/ \E v \in Heroes : RerenderHero(v)
    \/ \E i \in 1..Len(loads) : CacheLoadSucceed(i)
    \/ \E i \in 1..Len(loads) : CacheLoadFail(i)
    \/ \E i \in 1..Len(loads) : CacheAssetError(i)
    \/ \E i \in 1..Len(loads) : DemoLoadSucceed(i)
    \/ \E i \in 1..Len(loads) : DemoLoadFail(i)
    \/ \E i \in 1..Len(loads) : DemoAssetError(i)
    \/ \E v \in Heroes : ThenRun(v)
    \/ \E v \in Demos, name \in DemoClipNames : Play(v, name)
    \/ \E d \in 1..MaxStep : Frame(d)

Spec == Init /\ [][Next]_vars

(***************************************************************************)
(* Properties.                                                             *)
(***************************************************************************)
CacheLoads == {i \in DOMAIN loads : loads[i].owner = "cache"}

LoadsOf(x) == {i \in DOMAIN loads : loads[i].asset = x}

\* The hero viewers that have called ensureFetchPreload.
Requesters == {v \in Heroes : effectRuns[v] > 0}

\* C1: when every call of ensureFetchPreload so far asked for the same
\* asset x, whether made while the load was in flight or after it settled,
\* the cache has started exactly one load, a load of x, and every callback
\* that has run received the same result: the model of x, or null.
C1_SingleFlight ==
    \A x \in Assets :
        (Requesters # {} /\ \A v \in Requesters : req[v] = x) =>
            /\ Cardinality(CacheLoads) = 1
            /\ \A i \in CacheLoads : loads[i].asset = x
            /\ \A v \in Requesters : received[v] \in {"none", Null, x}
            /\ \A v, w \in Requesters :
                  (received[v] # "none" /\ received[w] # "none")
                      => received[v] = received[w]

\* Two hero viewers asked for asset A, one of them twice, and all got the
\* model from the one load.
C1_Witness ==
    /\ received["h1"] = "A"
    /\ received["h2"] = "A"
    /\ effectRuns["h1"] = 2
    /\ pendingThen["h1"] = 0
    /\ Cardinality(CacheLoads) = 1

\* C2: the cache is keyed by asset: every viewer that asked for an asset
\* had a load of that asset started for it, and a viewer that received a
\* model received the model of the asset it asked for.
C2_KeyedByAsset ==
    \A v \in Requesters :
        /\ \E i \in CacheLoads : loads[i].asset = req[v]
        /\ received[v] \notin {"none", Null} => received[v] = req[v]

\* C3: no viewer, hero or demo, starts a second fetch of an asset that was
\* already requested: every asset is fetched at most once.
C3_NoRefetch == \A x \in Assets : Cardinality(LoadsOf(x)) <= 1

\* C4: a failed load resolves the cache to null, and a hero viewer whose
\* callback received null has no model in the scene, no current instance,
\* an empty joint registry, no onReady/onLoaded call, no exception, no
\* playback record and untouched joints, also after later frames.
C4_FailSoft ==
    /\ \A i \in CacheLoads :
          loads[i].status = "error" =>
              fetchPreload.state = "resolved" /\ fetchPreload.value = Null
    /\ \A v \in Heroes :
          ~threw[v] /\
          (received[v] = Null =>
              /\ scene[v] = {}
              /\ robotRef[v] = 0
              /\ jointMap[v] = {}
              /\ readyCalls[v] = 0
              /\ clipRef[v] = NoClip
              /\ jointVal[v] = ZeroJoints)

\* A hero viewer got null, and frames have run since.
C4_Witness ==
    /\ received["h1"] = Null
    /\ pendingThen["h1"] = 0
    /\ now > 0

\* The viewers a failure of load i concerns.
Affected(i) ==
    IF loads[i].owner = "cache" THEN {v \in Heroes : mounted[v]}
    ELSE {loads[i].owner}

\* C5: every load failure, of the whole model or of a sub-resource, in any
\* viewer, leaves the status reported to the host at loading = false with
\* an error string.
C5_EveryFailureReported ==
    [][\A i \in DOMAIN loads :
          (CacheLoadFail(i) \/ CacheAssetError(i) \/ DemoLoadFail(i)
              \/ DemoAssetError(i))
          => \A v \in Affected(i) :
                status'[v].loading = FALSE /\ status'[v].error # Null]_vars

\* A non-looping clip of viewer v is active and is over at time t1.
Over(v, t1) ==
    /\ mounted[v]
    /\ clipRef[v].clip # Null
    /\ ~ClipOf(clipRef[v].clip).loop
    /\ t1 - clipRef[v].start >= Duration(ClipOf(clipRef[v].clip))

\* C6 as claimed: on the first frame at which a non-looping clip is over,
\* the playback record is cleared and no joint is written, and a frame
\* never fills an empty playback record.  The frames are the steps in
\* which time advances.
C6_ClearsWhenOver ==
    [][now' # now =>
          \A v \in Viewers :
             /\ Over(v, now') => (clipRef'[v] = NoClip /\ jointVal'[v] = jointVal[v])
             /\ clipRef[v] = NoClip => clipRef'[v] = NoClip]_vars

\* C6 as amended: the same, for a viewer that holds a model instance.
C6_ClearsWhenOverAndLoaded ==
    [][now' # now =>
          \A v \in Viewers :
             /\ (Over(v, now') /\ robotRef[v] # 0)
                   => (clipRef'[v] = NoClip /\ jointVal'[v] = jointVal[v])
             /\ clipRef[v] = NoClip => clipRef'[v] = NoClip]_vars

\* The intro clip of a hero viewer was played once and a frame cleared it.
C6_Witness ==
    /\ readyCalls["h1"] = 1
    /\ robotRef["h1"] # 0
    /\ clipRef["h1"] = NoClip
    /\ now >= Duration(IntroPoseClip)

\* C7: when a frame reports a non-looping clip finished (clears it), every
\* joint of the registry named in the last keyframe holds exactly that
\* keyframe's angle.
C7_EndsOnLastKeyframe ==
    [][\A d \in 1..MaxStep : Frame(d) =>
          \A v \in Viewers :
             (clipRef[v].clip # Null /\ clipRef'[v].clip = Null) =>
                LET clip == ClipOf(clipRef[v].clip)
                    last == clip.frames[Len(clip.frames)]
                IN  \A j \in DOMAIN last.joints \cap jointMap[v] :
                       jointVal'[v][j] = R(last.joints[j])]_vars

\* C8: a looping clip sampled at an elapsed time and one duration later
\* yields the same joint values.
C8_Periodic ==
    sClip.loop =>
        sOut.writes = Sample(sClip, sElapsed + Duration(sClip)).writes

\* A looping three-keyframe clip sampled past its first period, between
\* keyframes, at an interpolated value.
C8_Witness ==
    /\ sClip.loop
    /\ Len(sClip.frames) = 3
    /\ sElapsed > Duration(sClip)
    /\ Duration(sClip) > 0
    /\ "a" \in DOMAIN sOut.writes
    /\ sOut.writes["a"][2] = 2

\* C9: sampling at the time of any keyframe yields a sample (not only
\* "finished") with exactly that keyframe's angles, and 0 for the joints
\* written that the keyframe does not name.
C9_KeyframeExact ==
    \A k \in 1..Len(sClip.frames) :
        sElapsed = sClip.frames[k].time =>
            /\ ~sOut.finished
            /\ \A j \in DOMAIN sClip.frames[k].joints :
                  j \in DOMAIN sOut.writes
                      /\ sOut.writes[j] = R(sClip.frames[k].joints[j])
            /\ \A j \in DOMAIN sOut.writes \ DOMAIN sClip.frames[k].joints :
                  sOut.writes[j] = R(0)

\* Keyframes k and k+1 both name joint a, with a smaller angle at k.
Rising(clip, k) ==
    /\ "a" \in DOMAIN clip.frames[k].joints
    /\ "a" \in DOMAIN clip.frames[k + 1].joints
    /\ clip.frames[k].joints["a"] < clip.frames[k + 1].joints["a"]

\* The effective time of the sample at elapsed time e lies between
\* keyframes k and k+1.
Within(clip, k, e) ==
    /\ ~Finished(clip, e)
    /\ RLeq(R(clip.frames[k].time), EffectiveT(clip, e))
    /\ RLeq(EffectiveT(clip, e), R(clip.frames[k + 1].time))

\* The sample at elapsed time e writes joint a.
WritesA(clip, e) == "a" \in DOMAIN Sample(clip, e).writes

\* Between keyframes k and k+1 the angle written to joint a lies between
\* the two keyframe angles and does not decrease with the effective time.
MonotoneOn(clip, k, e) ==
    LET v  == Sample(clip, e).writes["a"]
        v1 == R(clip.frames[k].joints["a"])
        v2 == R(clip.frames[k + 1].joints["a"])
    IN  WritesA(clip, e) =>
          /\ RLeq(v1, v)
          /\ RLeq(v, v2)
          /\ \A e2 \in ElapsedSet :
                (Within(clip, k, e2) /\ WritesA(clip, e2)
                   /\ RLeq(EffectiveT(clip, e), EffectiveT(clip, e2)))
                => RLeq(v, Sample(clip, e2).writes["a"])

\* C10 as claimed: for any two consecutive keyframes with v1 < v2.
C10_Monotone ==
    \A k \in 1..(Len(sClip.frames) - 1) :
        (Rising(sClip, k) /\ Within(sClip, k, sElapsed))
            => MonotoneOn(sClip, k, sElapsed)

\* Keyframe k is the first one, or at least Eps after its predecessor.
WellSpaced(clip, k) ==
    k > 1 => clip.frames[k].time - clip.frames[k - 1].time >= Eps

\* C10 as amended: for two consecutive keyframes with v1 < v2 of which the
\* first is the clip's first keyframe or at least Eps after its predecessor.
C10_MonotoneWellSpaced ==
    \A k \in 1..(Len(sClip.frames) - 1) :
        (Rising(sClip, k) /\ WellSpaced(sClip, k) /\ Within(sClip, k, sElapsed))
            => MonotoneOn(sClip, k, sElapsed)

\* A sample strictly inside the second segment of a three-keyframe clip,
\* with an angle strictly between the two keyframe angles.
C10_Witness ==
    /\ Len(sClip.frames) = 3
    /\ Rising(sClip, 2)
    /\ WellSpaced(sClip, 2)
    /\ Within(sClip, 2, sElapsed)
    /\ sClip.frames[2].time < sElapsed
    /\ ~sClip.loop
    /\ RLt(R(sClip.frames[2].joints["a"]), sOut.writes["a"])
    /\ RLt(sOut.writes["a"], R(sClip.frames[3].joints["a"]))

\* The bracketing keyframes of the sample taken.
SF1 == sClip.frames[Bracket(sClip, EffectiveT(sClip, sElapsed))[1]]

SF2 == sClip.frames[Bracket(sClip, EffectiveT(sClip, sElapsed))[2]]

\* C11: for each registry, a sample writes exactly the joints that its
\* bracketing keyframes f1 and f2 name and the registry holds, each with
\* lerp(v1, v2, alpha) where a keyframe that does not name the joint
\* counts as angle 0.
C11_ZeroFill ==
    LET f1 == SF1
        f2 == SF2
        al == Alpha(f1, f2, EffectiveT(sClip, sElapsed))
        V(f, j) == IF j \in DOMAIN f.joints THEN R(f.joints[j]) ELSE R(0)
    IN  \A reg \in Registries :
            ~sRegOut[reg].finished =>
                /\ DOMAIN sRegOut[reg].writes =
                      (DOMAIN f1.joints \cup DOMAIN f2.joints) \cap reg
                /\ \A j \in DOMAIN sRegOut[reg].writes :
                      sRegOut[reg].writes[j] = Lerp(V(f1, j), V(f2, j), al)

\* Joint b is named by the first bracketing keyframe only, with angle 1,
\* and is written half way to 0; joint a is named by both.
C11_Witness ==
    /\ ~sRegOut[JointNames].finished
    /\ "b" \in DOMAIN SF1.joints
    /\ "b" \notin DOMAIN SF2.joints
    /\ "a" \in DOMAIN SF2.joints
    /\ sRegOut[JointNames].writes["b"] = <<1, 2>>

\* C12: a frame of a viewer that holds a model and plays a clip of
\* duration 0 writes the angles of the clip's last (only) keyframe to the
\* joints of the registry, and none of them is NaN.
C12_DegenerateClipWritten ==
    [][\A d \in 1..MaxStep : Frame(d) =>
          \A v \in Viewers :
             (/\ mounted[v]
              /\ robotRef[v] # 0
              /\ clipRef[v].clip # Null
              /\ Duration(ClipOf(clipRef[v].clip)) = 0) =>
                LET clip == ClipOf(clipRef[v].clip)
                    last == clip.frames[Len(clip.frames)]
                IN  \A j \in DOMAIN last.joints \cap jointMap[v] :
                       /\ ~IsNaN(jointVal'[v][j])
                       /\ jointVal'[v][j] = R(last.joints[j])]_vars

\* The joint angles of viewer v after a frame at time t1 if they come from
\* the clip named c started at time st alone.
DrivenBy(v, c, st, t1) ==
    LET out == SampleIn(ClipOf(c), t1 - st, jointMap[v])
    IN  [j \in JointNames |->
            IF ~out.finished /\ j \in DOMAIN out.writes THEN out.writes[j]
            ELSE jointVal[v][j]]

\* C13: play(c2) replaces the playback record by (c2, now) whatever it
\* held, and every frame of a viewer that holds a model writes the joints
\* from the clip of the current record and its own elapsed time only.
\* The frames are the steps in which time advances.
C13_Preemption ==
    [][/\ \A v \in Demos, name \in DemoClipNames :
             (now' = now /\ clipRef'[v] # clipRef[v] /\ Play(v, name)) =>
                 clipRef'[v] = [clip |-> name, start |-> now]
       /\ now' # now =>
             \A v \in Viewers :
                (mounted[v] /\ robotRef[v] # 0 /\ clipRef[v].clip # Null) =>
                   jointVal'[v] =
                      DrivenBy(v, clipRef[v].clip, clipRef[v].start, now')]_vars

\* The dance clip was started at time 1 over joints that the wave clip,
\* started at time 0 and then half way, had just written.
C13_Witness ==
    /\ clipRef["d1"] = [clip |-> "dance", start |-> 1]
    /\ robotRef["d1"] # 0
    /\ now = 1
    /\ jointVal["d1"]["a"] = <<1, 2>>

\* The playback record of the hero viewer changes in this step.
ClipChanged == clipRef'[CamViewer] # clipRef[CamViewer]

\* The step is a play: onReady's playClip(introPoseClip).
ByPlay ==
    CamThenRun /\ clipRef'[CamViewer] = [clip |-> "intro-pose", start |-> now]

\* The step is a frame that clears a non-looping clip that is over.
ByTick ==
    \E d \in 1..MaxStep :
        CamFrame(d) /\ Over(CamViewer, now') /\ clipRef'[CamViewer] = NoClip

\* The step is the host disabling interaction, which clears the record.
ByDisable == CamSetEnable(FALSE) /\ clipRef'[CamViewer] = NoClip

\* C14 as claimed: the playback record changes only through play and
\* through the frame that clears a finished non-looping clip.
C14_OnlyPlayAndTick == [][ClipChanged => (ByPlay \/ ByTick)]_vars

\* C14 as amended: ... and through the effect that runs when the host
\* sets enableInteraction to false.
C14_OnlyPlayTickAndDisable ==
    [][ClipChanged => (ByPlay \/ ByTick \/ ByDisable)]_vars

\* The intro clip, played once and not yet over, is gone after the host
\* disabled interaction; input, timer and load events have not touched it.
C14_Witness ==
    /\ readyCalls[CamViewer] = 1
    /\ clipRef[CamViewer] = NoClip
    /\ ~enableInteraction
    /\ introCamAnim.active
    /\ now > introCamAnim.start
    /\ now - introCamAnim.start < Duration(IntroPoseClip)
    /\ lastInput >= introCamAnim.start

\* C15: a joint the registry lacks is passed over and the others are
\* written as with the full registry: the clip section writes the joints
\* of the full-registry sample that the registry holds, with the same
\* angles, and the head follow moves each head joint the registry holds
\* by the smoothing step and leaves every other angle as it was.
C15_JointNotFoundSkipped ==
    \A reg \in Registries :
        /\ ~sRegOut[reg].finished =>
              /\ DOMAIN sRegOut[reg].writes = DOMAIN sOut.writes \cap reg
              /\ \A j \in DOMAIN sRegOut[reg].writes :
                    sRegOut[reg].writes[j] = sOut.writes[j]
        /\ sHead[reg]["head_pan_joint"] =
              IF "head_pan_joint" \in reg THEN RMul(R(50), Smoothing) ELSE R(0)
        /\ sHead[reg]["head_tilt_joint"] =
              IF "head_tilt_joint" \in reg THEN RMul(R(-30), Smoothing) ELSE R(0)
        /\ \A j \in ClipJointNames :
              sHead[reg][j] =
                  IF j \in DOMAIN sRegOut[reg].writes THEN sRegOut[reg].writes[j]
                  ELSE R(0)

\* A registry lacks joint b and the tilt joint; the sample's keyframes
\* name a and b, the pointer is at a corner: a and the pan joint are
\* written, b and the tilt joint keep angle 0.
C15_Witness ==
    LET reg == {"a", "head_pan_joint"}
    IN  /\ reg \in DOMAIN sRegOut
        /\ sElapsed > 0
        /\ ~sRegOut[reg].finished
        /\ DOMAIN sOut.writes = {"a", "b"}
        /\ DOMAIN sRegOut[reg].writes = {"a"}
        /\ sOut.writes["b"] # R(0)
        /\ sHead[reg]["b"] = R(0)
        /\ sHead[reg]["head_pan_joint"] = R(6)
        /\ sHead[reg]["head_tilt_joint"] = R(0)

\* The intro camera animation writes the camera in every frame.
IntroWriting == ~enableInteraction /\ introCamAnim.active

\* The inactivity reset animation writes the camera in every frame.
ResetWriting == resetAnim.active

\* C16: the intro camera animation and the inactivity reset animation are
\* never both writing the camera pose.
C16_OneTransition == ~(IntroWriting /\ ResetWriting)

\* C17: an input event on the viewer while the reset animation is in
\* flight stops the animation (it writes the camera no more) and re-arms
\* the inactivity timer.
C17_InputCancelsReset ==
    [][\A move \in BOOLEAN :
          (CamInput(move) /\ resetAnim.active) =>
              (~resetAnim'.active /\ timeout' = now + InactivityWindow)]_vars

\* The running reset was started by a timer that no input preceded by
\* less than the inactivity window, and no input has followed.
QuietReset ==
    /\ resetAnim.active
    /\ lastInput = -1 \/ lastInput + InactivityWindow <= resetAnim.start

\* The frame d time units on is the first one at or past the end of the
\* running reset.
ResetCompletes(d) ==
    CamFrame(d) /\ resetAnim.active /\ now + d - resetAnim.start >= ResetDuration

\* C18: the frame that completes a reset started after a window without
\* input, and not followed by input, leaves the camera position equal to
\* the recorded default position, the look-target equal to the default
\* target, and no reset active.
C18_ResetReachesDefault ==
    [][\A d \in 1..MaxStep :
          (ResetCompletes(d) /\ QuietReset) =>
              /\ camPos' = defaultCamPos'
              /\ camTarget' = IntroCamTarget
              /\ ~resetAnim'.active]_vars

\* A reset animation begins in this step.
ResetBegins == resetAnim'.active /\ resetAnim' # resetAnim

\* C19: a reset animation begins only when the inactivity timer fires, and
\* then no input event lies less than one inactivity window back.
C19_ResetAfterFullWindow ==
    [][ResetBegins =>
          /\ CamTimerFire
          /\ resetAnim'.start = now
          /\ lastInput = -1 \/ now - lastInput >= InactivityWindow]_vars

\* A reset is running that began exactly one window after an input event
\* which itself came while the timer armed at mount was pending.
C19_Witness ==
    /\ resetAnim.active
    /\ lastInput > 0
    /\ lastInput < InactivityWindow
    /\ resetAnim.start = lastInput + InactivityWindow

\* The intro is triggered in this step: FetchRobot calls onIntroCamera and
\* onReady on a fresh instance.
IntroTriggered == readyCalls'[CamViewer] # readyCalls[CamViewer]

\* C20: the intro of the mounted viewer is triggered by the completion of
\* its load, with the instance in the scene and the intro camera animation
\* started, and it is not triggered a second time.
C20_IntroOnce ==
    [][IntroTriggered =>
          /\ CamThenRun
          /\ robotRef'[CamViewer] \in scene'[CamViewer]
          /\ introCamAnim' = [active |-> TRUE, start |-> now]
          /\ readyCalls[CamViewer] = 0]_vars

\* C21: the first frame at or past the end of a started intro camera
\* animation leaves the camera at the intro's end position, looking at
\* the intro target, and the animation inactive.
C21_IntroEnds ==
    [][\A d \in 1..MaxStep :
          (CamFrame(d) /\ introCamAnim.active
              /\ now + d - introCamAnim.start >= IntroCamDuration) =>
              /\ camPos' = IntroCamEnd
              /\ camTarget' = IntroCamTarget
              /\ ~introCamAnim'.active]_vars

\* C22: while enableInteraction is false the pointer target is
\* (0, 0, inactive) and no inactivity timer is armed.
C22_DisabledGates ==
    (mounted[CamViewer] /\ ~enableInteraction) =>
        (headTarget = HeadIdle /\ timeout = NoTimer)

\* The value the tracker is to write for one coordinate: the normalized
\* position, or the nearer end of [-1, 1] when it lies outside.
ClampedNormalized(client, size) ==
    LET n == Normalized(client, size)
    IN  IF RLt(n, R(-1)) THEN R(-1) ELSE IF RLt(R(1), n) THEN R(1) ELSE n

InUnit(r) == RLeq(R(-1), r) /\ RLeq(r, R(1))

\* C23: the pointer target is always within [-1, 1] on both axes and an
\* inactive target is (0, 0); a pointer move the tracker handles sets the
\* clamped normalized position with active = true, and every step that
\* leaves the target inactive (leave, blur, load, disabling) leaves it at
\* (0, 0, inactive).
C23_PointerTarget ==
    /\ [](/\ InUnit(headTarget.x) /\ InUnit(headTarget.y)
          /\ ~headTarget.active => headTarget = HeadIdle)
    /\ [][headTarget' # headTarget =>
             IF headTarget'.active
             THEN \E e \in MouseEvents, w \in Viewports :
                     /\ PointerMove(e, w)
                     /\ headTarget' =
                           [x |-> ClampedNormalized(e.clientX, w.innerWidth),
                            y |-> ClampedNormalized(e.clientY, w.innerHeight),
                            active |-> TRUE]
             ELSE headTarget' = HeadIdle]_vars

\* A move far outside the window has been clamped on one axis and
\* normalized on the other.
C23_Witness ==
    /\ headTarget = [x |-> R(0), y |-> R(-1), active |-> TRUE]
    /\ now > 0

\* The angle the head driver steers joint j to.
MappedTarget(j) ==
    IF ~headTarget.active THEN R(0)
    ELSE IF j = "head_pan_joint" THEN RMul(headTarget.x, R(50))
    ELSE RMul(headTarget.y, R(30))

\* r <= s and r - s, computed over the least common denominator.
CommonScale(r, s) == s[2] \div GCD(r[2], s[2])

RLeqCommon(r, s) ==
    ~IsNaN(r) /\ ~IsNaN(s) /\ r[1] * CommonScale(r, s) <= s[1] * CommonScale(s, r)

RSubCommon(r, s) ==
    IF IsNaN(r) \/ IsNaN(s) THEN NaN
    ELSE RNorm(r[1] * CommonScale(r, s) - s[1] * CommonScale(s, r),
               r[2] * CommonScale(r, s))

Between(lo, x, hi) ==
    \/ RLeqCommon(lo, x) /\ RLeqCommon(x, hi)
    \/ RLeqCommon(hi, x) /\ RLeqCommon(x, lo)

RAbs(r) == IF r[1] < 0 THEN <<-r[1], r[2]>> ELSE r

\* C24: in every frame with interaction enabled each head joint of the
\* model moves from its value towards the mapped target by the smoothing
\* factor: the new value lies between the old value and the target, the
\* distance to the target shrinks by the same factor below one in every
\* frame, and the joint reaches the target only if it was there already.
C24_NoOvershoot ==
    [][(now' # now /\ enableInteraction) =>
          \A j \in HeadJointNames \cap jointMap[CamViewer] :
              LET prev == jointVal[CamViewer][j]
                  new == jointVal'[CamViewer][j]
                  tgt == MappedTarget(j)
                  before == RAbs(RSubCommon(tgt, prev))
                  after == RAbs(RSubCommon(tgt, new))
              IN  /\ Between(prev, new, tgt)
                  /\ RSubCommon(new, prev) =
                        RMul(Smoothing, RSubCommon(tgt, prev))
                  /\ RLeqCommon(after, before)
                  /\ after = RMul(RSub(R(1), Smoothing), before)
                  /\ RLt(RSub(R(1), Smoothing), R(1))
                  /\ new = tgt => prev = tgt]_vars

\* Two frames into following a pointer at x = 1, y = 1: the pan joint is
\* at 6 + 0.12 * 44 of its 50 degrees, the tilt joint on its way to 30.
C24_Witness ==
    /\ headTarget = [x |-> R(1), y |-> R(1), active |-> TRUE]
    /\ jointVal[CamViewer]["head_pan_joint"] = <<282, 25>>
    /\ RLt(R(0), jointVal[CamViewer]["head_tilt_joint"])
    /\ RLt(jointVal[CamViewer]["head_tilt_joint"], R(30))

\* C25: once the viewer is unmounted nothing it scheduled is pending: no
\* inactivity timeout, no reset animation frame, no timer armed by onReady.
C25_UnmountStopsTimers ==
    (effectRuns[CamViewer] > 0 /\ ~mounted[CamViewer]) =>
        (timeout = NoTimer /\ ~resetAnim.active /\ timers = <<>>)

\* C26: once the viewer is unmounted no model instance of it is in the
\* scene graph.
C26_UnmountedSceneEmpty ==
    (effectRuns[CamViewer] > 0 /\ ~mounted[CamViewer]) => scene[CamViewer] = {}

\* C27: onWaveComplete is called at most once for a viewer.
C27_WaveCompleteOnce == waveCompleteCalls <= 1

\* C28: when onWaveComplete is called the viewer no longer holds the
\* wave clip as its active clip.
C28_CompleteAfterFinish ==
    [][waveCompleteCalls' > waveCompleteCalls =>
          clipRef[WaveViewer].clip # "wave"]_vars

\* C30: the always-on viewer holds the looping dance clip from its mount
\* until the first startWave; a startWave replaces the active clip by the
\* wave; the completion timer of a start fires no earlier than the wave's
\* duration after it, and the startDance timer of a start fires only after
\* onWaveComplete has been called for that start; and once a wave has been
\* started, eventually the active clip is the dance clip for good, no
\* timer pending.
C30_WaveThenDance ==
    /\ []((mounted[WaveViewer] /\ starts = 0) =>
             clipRef[WaveViewer].clip = "dance")
    /\ [][/\ starts' # starts =>
                clipRef'[WaveViewer] = [clip |-> "wave", start |-> now]
          /\ Len(timers') < Len(timers) =>
                \A i \in DOMAIN timers :
                    FiresFirst(i) =>
                        /\ now' >= timers[i].due
                        /\ timers[i].fn = "startDance" =>
                              /\ waveCompleteCalls >= timers[i].start
                              /\ clipRef'[WaveViewer] =
                                    [clip |-> "dance", start |-> now']]_vars
    /\ \/ [](starts = 0)
       \/ <>[](/\ clipRef[WaveViewer].clip = "dance"
               /\ DanceClip.loop
               /\ timers = <<>>)

\* One wave has run its course: the host was notified and the dance is
\* back, on a loaded model.
C30_Witness ==
    /\ starts = 1
    /\ waveCompleteCalls = 1
    /\ timers = <<>>
    /\ robotRef[WaveViewer] # 0
    /\ clipRef[WaveViewer].clip = "dance"
    /\ clipRef[WaveViewer].start = Duration(WaveClip) + DanceDelay

\* C29: whenever the intro holds or moves the camera, the bounds of the
\* loaded model are known and the intro's poses lie on the viewing axis
\* at the model's fit radius times the start factor and times the larger
\* end factor.
C29_IntroSeededByFit ==
    LET radius == MathMax(<<1, 2>>, bounds.radius)
        fromPose == AlongAxis(RMul(radius, StartFactor))
        toPose == AlongAxis(RMul(radius, EndFactor))
    IN  /\ RLt(StartFactor, EndFactor)
        /\ introHold.held => (bounds.known /\ introHold.startPos = fromPose)
        /\ introTimer.armed =>
              (introTimer.startPos = fromPose /\ introTimer.endPos = toPose)
        /\ cameraAnim.active =>
              (cameraAnim.startPos = fromPose /\ cameraAnim.endPos = toPose)

\* C31: once the page has both the play function and the bounds, the
\* automatic wave is armed, and from then on it is either still pending
\* or has been started, exactly once, whatever renders of the page
\* happen in between.
C31_AutoWaveOnce ==
    /\ autoWaves <= 1
    /\ (PlayClipReady /\ bounds.known) => waveTriggered
    /\ waveTriggered => (waveTimer.armed \/ autoWaves = 1)

\* The intro has run: the bounds are known, nothing holds the camera, no
\* intro timer is pending and no animation is active.
IntroDone ==
    bounds.known /\ ~introHold.held /\ ~introTimer.armed /\ ~cameraAnim.active

C33_DisabledNoClip ==
    ~enableInteraction => clipRef[CamViewer] = NoClip

\* C34: a mounted viewer has at most one model instance in the scene
\* graph, and that instance is the current one, whose joints the tick
\* writes.
C34_OneInstance ==
    \A v \in Viewers :
        mounted[v] =>
            /\ Cardinality(scene[v]) <= 1
            /\ scene[v] \subseteq {robotRef[v]}

\* The hero viewer has its model, and nothing that moves the camera by
\* itself is left to run: no callback of the load is pending, no
\* inactivity timer is armed, no reset animation is running and the intro
\* drift is over or gated off.
CameraAtRest ==
    /\ mounted[CamViewer]
    /\ robotRef[CamViewer] # 0
    /\ pendingThen[CamViewer] = 0
    /\ timeout = NoTimer
    /\ ~resetAnim.active
    /\ ~(~enableInteraction /\ introCamAnim.active)

\* C35: without any user input, a hero viewer whose model has loaded ends
\* with its camera at the intro's end position: whenever nothing is left
\* to run, the camera is there.  The host is taken to render the viewer
\* once, with an enableInteraction that stays as it was at mount.
C35_RestsAtDefault ==
    (lastInput = -1 /\ effectRuns[CamViewer] = 1 /\ CameraAtRest) =>
        camPos = IntroCamEnd

\* The inactivity timer is armed anew in this step.
TimerArmed == timeout' # NoTimer /\ timeout' # timeout

\* C36: at most one animate loop of the inactivity reset is waiting for
\* a frame, and it is the running reset's; a reset begins only by
\* the inactivity timer firing, which disarms the timer, and the timer is
\* armed only at mount and by an input event: after a reset none begins
\* until an input event has armed the timer again.
C36_OneResetLoop ==
    /\ [](resetLoops = IF resetAnim.active THEN 1 ELSE 0)
    /\ [][ResetBegins =>
            /\ timeout # NoTimer /\ timeout <= now
            /\ timeout' = NoTimer]_vars
    /\ [][TimerArmed =>
            \/ ~mounted[CamViewer] /\ mounted'[CamViewer]
            \/ lastInput' = now /\ timeout' = now + InactivityWindow]_vars

\* The timer fired while the animate loop of an earlier reset was waiting:
\* the running reset began in this instant from a camera position that
\* only a reset under way leaves behind.
C36_Witness ==
    /\ resetAnim.active
    /\ resetLoops = 1
    /\ resetAnim.start = now
    /\ resetAnim.startPos \notin
          {InitialCamPos, IntroCamStart, IntroCamEnd, OrbitPos}

\* C37: the cache starts one load at most; once that load has settled the
\* cache cell keeps its outcome for good, a null as well as a model, and
\* every callback run since has received that outcome.
C37_SettledForGood ==
    /\ [](/\ Cardinality(CacheLoads) <= 1
          /\ fetchPreload.state = "resolved" =>
                \A v \in Heroes : received[v] \in {"none", fetchPreload.value})
    /\ [][fetchPreload.state = "resolved" => fetchPreload' = fetchPreload]_vars

\* The one load failed, and requests made by two viewers and by a re-run
\* of an effect have all been answered with null.
C37_Witness ==
    /\ fetchPreload.state = "resolved"
    /\ fetchPreload.value = Null
    /\ received["h1"] = Null
    /\ received["h2"] = Null
    /\ effectRuns["h1"] = 2
    /\ pendingThen["h1"] = 0
    /\ pendingThen["h2"] = 0
    /\ Cardinality(CacheLoads) = 1

\* C38: when a load of the demo viewer has ended and an error of one of
\* its sub-resources was reported on the way, the status the host holds
\* carries an error.
C38_ErrorKept ==
    \A i \in DOMAIN loads :
        (loads[i].owner \in Demos /\ loads[i].meshFailed
            /\ loads[i].status # "pending") =>
            status[loads[i].owner].error # Null

\* C39: on a first visit of the home page the content is visible only
\* once onWaveComplete has fired, and once the viewer is mounted the
\* loader overlay is eventually gone with the content visible.
C39_LoaderGoesContentShows ==
    /\ []((home.firstAtMount /\ home.contentVisible) => waveCompleteCalls >= 1)
    /\ (mounted[CamViewer] /\ home.firstAtMount)
          ~> (~home.showLoader /\ home.contentVisible)

====
